---- MODULE Spec2Model ----
(***************************************************************************)
(* Model of the commit-and-diff attribution engine of timelapse:           *)
(*   lib/data_loaders.py    run_git, parse_ts, load_commits                *)
(*   lib/symbol_extractor.py parse_diff_hunks, map_hunks_to_symbols,       *)
(*                           symbols_from_hunk_headers, extract_symbols    *)
(*   analyze_symbols.py      _symbol_rows_for_commit, _build_aggregate     *)
(*   lib/metrics.py          nearest_prompt_lags_hours, rework_ratio,      *)
(*                           co_change_matrix, coupling_scores,            *)
(*                           churn_velocity, per_file_retouch_ratio        *)
(* Text is modelled as sequences of one-character strings, so that the     *)
(* splitting, stripping and matching the code performs are computed, not   *)
(* assumed.                                                                *)
(***************************************************************************)
EXTENDS Integers, Sequences, FiniteSets, TLC

VARIABLES
    git,        \* outcome of the version-control invocation (environment)
    emitted,    \* what the history query printed, record by record (environment)
    lpc,        \* load_commits: position ("start", "loop", "returned", "raised")
    output,     \* load_commits: the lines of output.splitlines() consumed so far
    commits,    \* load_commits: the list `commits`
    current,    \* load_commits: index in commits of `current` (0 is None)
    result,     \* load_commits: the returned list
    dpc,        \* parse_diff_hunks: position ("loop", "returned")
    diff_lines, \* parse_diff_hunks: the lines of diff_text.splitlines() consumed
    hunks,      \* parse_diff_hunks: the list `hunks`
    cur_hunk,   \* parse_diff_hunks: `current` (<<>> is None, else <<hunk>>)
    old_line,   \* parse_diff_hunks: cursor in old-file coordinates
    new_line,   \* parse_diff_hunks: cursor in new-file coordinates
    parsed,     \* parse_diff_hunks: the returned list
    mpc,        \* map_hunks_to_symbols: position ("start", "loop", "returned")
    m_hunks,    \* map_hunks_to_symbols: argument `hunks`
    m_symbols,  \* map_hunks_to_symbols: argument `symbols` (name -> <<start, end>>)
    m_i,        \* map_hunks_to_symbols: number of hunks already visited
    touches,    \* map_hunks_to_symbols: the Counter `touches`
    hpc,        \* symbols_from_hunk_headers: position ("loop", "returned")
    h_hunks,    \* symbols_from_hunk_headers: argument `hunks`
    h_i,        \* symbols_from_hunk_headers: number of hunks already visited
    counts,     \* symbols_from_hunk_headers: the Counter `counts`
    rpc,        \* _symbol_rows_for_commit: position
    commit,     \* _symbol_rows_for_commit: argument `commit` (its merge_commit)
    r_diff,     \* what the diff of the commit parses to (environment)
    r_source,   \* what the file at the commit extracts to (environment)
    queries,    \* the diff and file-content queries issued so far
    r_hunks,    \* _symbol_rows_for_commit: `hunks`
    r_symbols,  \* _symbol_rows_for_commit: `symbols`
    touched,    \* _symbol_rows_for_commit: `touched`
    extractor,  \* _symbol_rows_for_commit: `extractor` ("" before it is set)
    quality_flags, \* _symbol_rows_for_commit: `quality_flags`
    rows,       \* _symbol_rows_for_commit: `rows`
    returned,   \* _symbol_rows_for_commit: the returned pair (<<>> before)
    epc,        \* extract_symbols: position ("start", "visit", "returned", "raised")
    source,     \* extract_symbols: argument `source` (its kind and its tree)
    agenda,     \* _SymbolVisitor: the visits and pops still to come
    stack,      \* _SymbolVisitor: `stack`
    e_symbols,  \* _SymbolVisitor: `symbols`
    cpc,        \* coupling_scores: position ("count", "matrix", "rows", "returned")
    c_commits,  \* coupling_scores: argument `commits`
    target_file,         \* coupling_scores: argument
    min_shared_revs,     \* coupling_scores: argument
    max_changeset_size,  \* coupling_scores: argument
    c_i,        \* number of commits the running loop has visited
    commit_count_for_file, \* coupling_scores: the Counter of that name
    pairs,      \* co_change_matrix: the Counter `pairs`, in insertion order
    c_rows,     \* coupling_scores: the returned `rows`
    w_commits,  \* rework_ratio: argument `commits`
    ratios,     \* rework_ratio: the value returned for each window_days tried
    qpc,        \* position of a call of one of the other metrics
    q_commits,  \* the metric's argument `commits`
    q_prompts,  \* nearest_prompt_lags_hours: argument `prompts`
    q_file,     \* the metric's argument `file_path`
    q_arg,      \* the metric's argument `window` or `bucket_days`
    q_order,    \* the order in which a second caller passes the same items
    q_out,      \* the value the metric returned
    apc,        \* position of _build_aggregate
    all_rows,   \* _build_aggregate: argument `all_rows`
    aggregates  \* _build_aggregate: the returned list

vars == <<git, emitted, lpc, output, commits, current, result,
          dpc, diff_lines, hunks, cur_hunk, old_line, new_line, parsed,
          mpc, m_hunks, m_symbols, m_i, touches,
          hpc, h_hunks, h_i, counts,
          rpc, commit, r_diff, r_source, queries, r_hunks, r_symbols,
          touched, extractor, quality_flags, rows, returned,
          epc, source, agenda, stack, e_symbols,
          cpc, c_commits, target_file, min_shared_revs, max_changeset_size,
          c_i, commit_count_for_file, pairs, c_rows,
          w_commits, ratios,
          qpc, q_commits, q_prompts, q_file, q_arg, q_order, q_out,
          apc, all_rows, aggregates>>

loadVars == <<git, emitted, lpc, output, commits, current, result>>
diffVars == <<dpc, diff_lines, hunks, cur_hunk, old_line, new_line, parsed>>
mapVars  == <<mpc, m_hunks, m_symbols, m_i, touches>>
hdrVars  == <<hpc, h_hunks, h_i, counts>>
rowVars  == <<rpc, commit, r_diff, r_source, queries, r_hunks, r_symbols,
              touched, extractor, quality_flags, rows, returned>>

\* the variables of the loader, the diff parser and the mapper, and the
\* variables of the analyses built on them
coreVars == <<loadVars, diffVars, mapVars>>
extVars  == <<epc, source, agenda, stack, e_symbols>>
coupVars == <<cpc, c_commits, target_file, min_shared_revs,
              max_changeset_size, c_i, commit_count_for_file, pairs, c_rows>>
reworkVars == <<w_commits, ratios>>
callVars == <<qpc, q_commits, q_prompts, q_file, q_arg, q_order, q_out>>
aggVars == <<apc, all_rows, aggregates>>
restVars == <<hdrVars, rowVars, extVars, coupVars, reworkVars, callVars,
              aggVars>>

\* what a step of each analysis leaves alone
exceptHdr == <<coreVars, rowVars, extVars, coupVars, reworkVars,
    callVars, aggVars>>
exceptRows == <<coreVars, hdrVars, extVars, coupVars, reworkVars,
    callVars, aggVars>>
exceptExt == <<coreVars, hdrVars, rowVars, coupVars, reworkVars,
    callVars, aggVars>>
exceptCoup == <<coreVars, hdrVars, rowVars, extVars, reworkVars,
    callVars, aggVars>>
exceptRework == <<coreVars, hdrVars, rowVars, extVars, coupVars,
    callVars, aggVars>>
exceptCall == <<coreVars, hdrVars, rowVars, extVars, coupVars, reworkVars,
    aggVars>>
exceptAgg == <<coreVars, hdrVars, rowVars, extVars, coupVars, reworkVars,
    callVars>>

(***************************************************************************)
(* Bounds of the model.                                                    *)
(***************************************************************************)
MaxLines == 4
MaxDiffLines == 4
MaxHunks == 2
MaxStatements == 2
MaxCommits == 2
MaxWindow == 2
MaxTouches == 3
MaxPrompts == 3
MaxRows == 3

(***************************************************************************)
(* Text primitives (Python str methods on sequences of characters).        *)
(***************************************************************************)
TAB == "\t"
SP == " "
PIPE == "|"

Rep(c, n) == [i \in 1..n |-> c]

Digits == {"0", "1", "2", "3", "4", "5", "6", "7", "8", "9"}
WhiteSpace == {SP, TAB}

DigitVal(c) ==
    CASE c = "0" -> 0 [] c = "1" -> 1 [] c = "2" -> 2 [] c = "3" -> 3
      [] c = "4" -> 4 [] c = "5" -> 5 [] c = "6" -> 6 [] c = "7" -> 7
      [] c = "8" -> 8 [] c = "9" -> 9

\* str.isdigit(): non-empty and every character a digit
IsDigit(s) == Len(s) > 0 /\ \A i \in 1..Len(s) : s[i] \in Digits

\* int(s) for a string of digits
RECURSIVE ToInt(_)
ToInt(s) ==
    IF Len(s) = 0 THEN 0
    ELSE 10 * ToInt(SubSeq(s, 1, Len(s) - 1)) + DigitVal(s[Len(s)])

\* index of the first occurrence of character c in s at or after from, else 0
RECURSIVE FindFrom(_, _, _)
FindFrom(s, c, from) ==
    IF from > Len(s) THEN 0
    ELSE IF s[from] = c THEN from
    ELSE FindFrom(s, c, from + 1)

\* s.split(c, max): at most max splits; max < 0 splits everywhere
RECURSIVE Split(_, _, _)
Split(s, c, max) ==
    LET i == FindFrom(s, c, 1) IN
    IF max = 0 \/ i = 0 THEN <<s>>
    ELSE <<SubSeq(s, 1, i - 1)>> \o Split(SubSeq(s, i + 1, Len(s)), c, max - 1)

\* s.lstrip(), s.rstrip(), s.strip()
RECURSIVE LStrip(_)
LStrip(s) ==
    IF Len(s) > 0 /\ s[1] \in WhiteSpace THEN LStrip(Tail(s)) ELSE s

RECURSIVE RStrip(_)
RStrip(s) ==
    IF Len(s) > 0 /\ s[Len(s)] \in WhiteSpace
    THEN RStrip(SubSeq(s, 1, Len(s) - 1)) ELSE s

Strip(s) == RStrip(LStrip(s))

\* index of the first whitespace character of s, else Len(s) + 1
RECURSIVE WordEnd(_, _)
WordEnd(s, i) ==
    IF i > Len(s) \/ s[i] \in WhiteSpace THEN i ELSE WordEnd(s, i + 1)

\* s.split(): the whitespace-separated words of s
RECURSIVE SplitWords(_)
SplitWords(s) ==
    LET t == LStrip(s)
        e == WordEnd(t, 1)
    IN  IF Len(t) = 0 THEN <<>>
        ELSE <<SubSeq(t, 1, e - 1)>> \o SplitWords(SubSeq(t, e, Len(t)))

\* s.startswith(p)
StartsWith(s, p) == Len(s) >= Len(p) /\ SubSeq(s, 1, Len(p)) = p

\* sep.join(parts)
RECURSIVE Join(_, _)
Join(parts, sep) ==
    IF Len(parts) = 0 THEN <<>>
    ELSE IF Len(parts) = 1 THEN parts[1]
    ELSE parts[1] \o sep \o Join(Tail(parts), sep)

Range(f) == {f[i] : i \in DOMAIN f}

(***************************************************************************)
(* lib/data_loaders.py                                                     *)
(***************************************************************************)
ShaLen == 40

HexChars == Digits \cup {"a", "b", "c", "d", "e", "f"}

\* run_git: subprocess.run raises when cwd does not exist (the child cannot
\* be started); a non-zero return code yields ""; otherwise stdout.
RunGit(g) ==
    IF ~g.cwd_exists THEN "raise"
    ELSE IF g.returncode # 0 THEN "empty"
    ELSE "stdout"

\* parse_ts: datetime.fromisoformat on the date texts of the model
\* (YYYY-MM-DD); any other text raises ValueError. The value is the day
\* count of a 372-day ledger year, which orders dates as the datetime does.
IsIsoDate(s) ==
    /\ Len(s) = 10
    /\ s[5] = "-" /\ s[8] = "-"
    /\ \A i \in {1, 2, 3, 4, 6, 7, 9, 10} : s[i] \in Digits
    /\ ToInt(SubSeq(s, 6, 7)) \in 1..12
    /\ ToInt(SubSeq(s, 9, 10)) \in 1..31

parse_ts(s) ==
    IF IsIsoDate(s)
    THEN [ok |-> TRUE,
          ts |-> 372 * ToInt(SubSeq(s, 1, 4)) + 31 * (ToInt(SubSeq(s, 6, 7)) - 1)
                 + ToInt(SubSeq(s, 9, 10)) - 1]
    ELSE [ok |-> FALSE, ts |-> 0]

\* load_commits, line 120
HeaderParts(line) == Split(line, PIPE, 3)

\* load_commits, line 121: the test that makes a line a commit header
IsHeader(line) ==
    LET parts == HeaderParts(line) IN Len(parts) = 4 /\ Len(parts[1]) = ShaLen

\* load_commits, line 123
Parents(parents_raw) == SplitWords(parents_raw)

NoStats == [p \in {} |-> <<0, 0>>]

\* load_commits, lines 122-133
NewCommit(parts) ==
    [sha |-> parts[1],
     ts |-> parse_ts(parts[2]).ts,
     subject |-> parts[3],
     files |-> <<>>,
     insertions |-> 0,
     deletions |-> 0,
     file_stats |-> NoStats,
     binary_numstat |-> FALSE,
     merge_commit |-> Len(Parents(parts[4])) > 1]

\* load_commits, line 137: the line is skipped before it is split on tabs
SkipsLine(line) == current = 0 \/ Strip(line) = <<>>

\* load_commits, lines 140-142
NumstatParts(line) == Split(line, TAB, -1)

\* load_commits, lines 149-150
FieldValue(raw) == IF IsDigit(raw) THEN ToInt(raw) ELSE 0

\* load_commits, line 151
IsBinary(ins_raw, del_raw) == ~IsDigit(ins_raw) \/ ~IsDigit(del_raw)

\* RegisterPath without the membership test of line 145
RegisterPathAlways(c, file_path) ==
    [c EXCEPT !.file_stats = (file_path :> <<0, 0>>) @@ c.file_stats,
              !.files = Append(c.files, file_path)]

\* load_commits, lines 145-147
RegisterPath(c, file_path) ==
    IF file_path \notin DOMAIN c.file_stats
    THEN [c EXCEPT !.file_stats = (file_path :> <<0, 0>>) @@ c.file_stats,
                   !.files = Append(c.files, file_path)]
    ELSE c

\* AddStats that overwrites the entry instead of adding to it
AddStatsOverwrite(prev, ins, dels) == <<ins, dels>>

\* load_commits, lines 157-158
AddStats(prev, ins, dels) == <<prev[1] + ins, prev[2] + dels>>

\* load_commits, lines 143-158
ApplyFileChange(c, ns) ==
    LET r == RegisterPath(c, ns[3])
        ins == FieldValue(ns[1])
        dels == FieldValue(ns[2])
    IN  [r EXCEPT !.binary_numstat = IF IsBinary(ns[1], ns[2]) THEN TRUE ELSE @,
                  !.insertions = @ + ins,
                  !.deletions = @ + dels,
                  !.file_stats = [@ EXCEPT ![ns[3]] = AddStats(@, ins, dels)]]

(***************************************************************************)
(* What the history query prints: `git log --format=%H|%aI|%s|%P           *)
(* --numstat` renders a header per commit and a tab-separated line per     *)
(* touched file; a path may hold any character but tab and newline.        *)
(***************************************************************************)
RenderHeader(r) ==
    Join(<<r.sha, r.ts, r.subject, Join(r.parents, <<SP>>)>>, <<PIPE>>)

RenderNumstat(r) == Join(<<r.ins, r.dels, r.path>>, <<TAB>>)

Render(r) ==
    CASE r.kind = "commit" -> RenderHeader(r)
      [] r.kind = "file" -> RenderNumstat(r)
      [] OTHER -> r.text

ShaA == Rep("a", ShaLen)
ShaB == Rep("b", ShaLen)
ShaC == Rep("c", ShaLen)
Iso1 == <<"2", "0", "2", "6", "-", "0", "1", "-", "0", "1">>
Iso2 == <<"2", "0", "2", "6", "-", "0", "1", "-", "0", "2">>
LongPath == Rep("p", ShaLen - 4)

CommitRec(sha, ts, subject, parents) ==
    [kind |-> "commit", sha |-> sha, ts |-> ts, subject |-> subject, parents |-> parents]

FileRec(ins, dels, path) ==
    [kind |-> "file", ins |-> ins, dels |-> dels, path |-> path]

TextRec(text) == [kind |-> "text", text |-> text]

HistoryRecords ==
    { CommitRec(ShaA, Iso1, <<"s">>, <<ShaB>>),
      CommitRec(ShaA, Iso2, <<"m">>, <<ShaB, ShaC>>),
      CommitRec(ShaA, Iso1, <<"a", "|", "b", " ", "c">>, <<ShaB>>),
      FileRec(<<"1">>, <<"2">>, <<"a">>),
      FileRec(<<"2">>, <<"1">>, <<"b">>),
      FileRec(<<"-">>, <<"-">>, <<"b">>),
      FileRec(<<"1">>, <<"2">>, LongPath \o <<"|">> \o Iso2 \o <<"|", "x", "|", "y">>),
      FileRec(<<"1">>, <<"2">>, LongPath \o <<"|", "x", "|", "y", "|", "z">>),
      TextRec(<<>>),
      TextRec(<<"x", TAB, "y">>) }

(***************************************************************************)
(* load_commits as a state machine: one step per line of the output.       *)
(***************************************************************************)
GitOutcomes ==
    { [cwd_exists |-> FALSE, returncode |-> 0],
      [cwd_exists |-> TRUE, returncode |-> 128],
      [cwd_exists |-> TRUE, returncode |-> 0] }

DiffIdle ==
    /\ dpc = "idle" /\ diff_lines = <<>> /\ hunks = <<>> /\ cur_hunk = <<>>
    /\ old_line = 0 /\ new_line = 0 /\ parsed = <<>>

MapIdle ==
    /\ mpc = "idle" /\ m_hunks = <<>> /\ m_symbols = <<>> /\ m_i = 0
    /\ touches = <<>>

LoadIdle ==
    /\ git = [cwd_exists |-> TRUE, returncode |-> 0] /\ emitted = <<>>
    /\ lpc = "idle" /\ output = <<>> /\ commits = <<>> /\ current = 0
    /\ result = <<>>

HdrIdle ==
    /\ hpc = "idle" /\ h_hunks = <<>> /\ h_i = 0 /\ counts = <<>>

RowsIdle ==
    /\ rpc = "idle" /\ commit = [merge_commit |-> FALSE] /\ r_diff = <<>>
    /\ r_source = [raises |-> FALSE, symbols |-> <<>>] /\ queries = <<>>
    /\ r_hunks = <<>> /\ r_symbols = <<>> /\ touched = <<>>
    /\ extractor = "" /\ quality_flags = <<>> /\ rows = <<>>
    /\ returned = <<>>

ExtIdle ==
    /\ epc = "idle" /\ source = [kind |-> "python", body |-> <<>>]
    /\ agenda = <<>> /\ stack = <<>> /\ e_symbols = <<>>

CoupIdle ==
    /\ cpc = "idle" /\ c_commits = <<>> /\ target_file = <<>>
    /\ min_shared_revs = 0 /\ max_changeset_size = 0 /\ c_i = 0
    /\ commit_count_for_file = <<>> /\ pairs = <<>> /\ c_rows = <<>>

ReworkIdle == w_commits = <<>> /\ ratios = <<>>

CallIdle ==
    /\ qpc = "idle" /\ q_commits = <<>> /\ q_prompts = <<>> /\ q_file = <<>>
    /\ q_arg = 0 /\ q_order = <<>> /\ q_out = <<>>

AggIdle == apc = "idle" /\ all_rows = <<>> /\ aggregates = <<>>

CoreIdle == LoadIdle /\ DiffIdle /\ MapIdle
RestIdle ==
    /\ HdrIdle /\ RowsIdle /\ ExtIdle /\ CoupIdle /\ ReworkIdle
    /\ CallIdle /\ AggIdle

IdleExceptHdr ==
    /\ CoreIdle /\ RowsIdle /\ ExtIdle /\ CoupIdle /\ ReworkIdle
    /\ CallIdle /\ AggIdle
IdleExceptRows ==
    /\ CoreIdle /\ HdrIdle /\ ExtIdle /\ CoupIdle /\ ReworkIdle
    /\ CallIdle /\ AggIdle
IdleExceptExt ==
    /\ CoreIdle /\ HdrIdle /\ RowsIdle /\ CoupIdle /\ ReworkIdle
    /\ CallIdle /\ AggIdle
IdleExceptCoup ==
    /\ CoreIdle /\ HdrIdle /\ RowsIdle /\ ExtIdle /\ ReworkIdle
    /\ CallIdle /\ AggIdle
IdleExceptRework ==
    /\ CoreIdle /\ HdrIdle /\ RowsIdle /\ ExtIdle /\ CoupIdle
    /\ CallIdle /\ AggIdle
IdleExceptCall ==
    /\ CoreIdle /\ HdrIdle /\ RowsIdle /\ ExtIdle /\ CoupIdle /\ ReworkIdle
    /\ AggIdle
IdleExceptAgg ==
    /\ CoreIdle /\ HdrIdle /\ RowsIdle /\ ExtIdle /\ CoupIdle /\ ReworkIdle
    /\ CallIdle

InitLoad ==
    /\ git \in GitOutcomes
    /\ emitted = <<>>
    /\ lpc = "start"
    /\ output = <<>>
    /\ commits = <<>>
    /\ current = 0
    /\ result = <<>>
    /\ DiffIdle
    /\ MapIdle
    /\ RestIdle

\* lines 104-114: the call of run_git raises out of load_commits
LoadRunGitRaises ==
    /\ lpc = "start"
    /\ RunGit(git) = "raise"
    /\ lpc' = "raised"
    /\ UNCHANGED <<git, emitted, output, commits, current, result>>
    /\ UNCHANGED <<diffVars, mapVars, restVars>>

\* lines 104-117: run_git returned text
LoadRunGitReturns ==
    /\ lpc = "start"
    /\ RunGit(git) # "raise"
    /\ lpc' = "loop"
    /\ UNCHANGED <<git, emitted, output, commits, current, result>>
    /\ UNCHANGED <<diffVars, mapVars, restVars>>

\* the loop of line 119 has another line to read
NextLineIs(r) ==
    /\ lpc = "loop"
    /\ RunGit(git) = "stdout"
    /\ Len(output) < MaxLines
    /\ emitted' = Append(emitted, r)
    /\ output' = Append(output, Render(r))

\* lines 120-135: the line is a header and starts a commit
LoadStartCommit(r) ==
    /\ NextLineIs(r)
    /\ IsHeader(Render(r))
    /\ parse_ts(HeaderParts(Render(r))[2]).ok
    /\ commits' = Append(commits, NewCommit(HeaderParts(Render(r))))
    /\ current' = Len(commits) + 1
    /\ UNCHANGED <<git, lpc, result>>
    /\ UNCHANGED <<diffVars, mapVars, restVars>>

\* line 127: parse_ts raises ValueError out of load_commits
LoadParseTsRaises(r) ==
    /\ NextLineIs(r)
    /\ IsHeader(Render(r))
    /\ ~parse_ts(HeaderParts(Render(r))[2]).ok
    /\ lpc' = "raised"
    /\ UNCHANGED <<git, commits, current, result>>
    /\ UNCHANGED <<diffVars, mapVars, restVars>>

\* lines 137-142: the line is passed over
LoadSkipLine(r) ==
    /\ NextLineIs(r)
    /\ ~IsHeader(Render(r))
    /\ SkipsLine(Render(r)) \/ Len(NumstatParts(Render(r))) # 3
    /\ UNCHANGED <<git, lpc, commits, current, result>>
    /\ UNCHANGED <<diffVars, mapVars, restVars>>

\* lines 143-158: the line is a file-change line of the current commit
LoadFileChange(r) ==
    /\ NextLineIs(r)
    /\ ~IsHeader(Render(r))
    /\ ~SkipsLine(Render(r))
    /\ Len(NumstatParts(Render(r))) = 3
    /\ commits' = [commits EXCEPT
                     ![current] = ApplyFileChange(@, NumstatParts(Render(r)))]
    /\ UNCHANGED <<git, lpc, current, result>>
    /\ UNCHANGED <<diffVars, mapVars, restVars>>

\* line 160: the output is exhausted
LoadReturn ==
    /\ lpc = "loop"
    /\ lpc' = "returned"
    /\ result' = commits
    /\ UNCHANGED <<git, emitted, output, commits, current>>
    /\ UNCHANGED <<diffVars, mapVars, restVars>>

NextLoad ==
    \/ LoadRunGitRaises
    \/ LoadRunGitReturns
    \/ \E r \in HistoryRecords : LoadStartCommit(r)
    \/ \E r \in HistoryRecords : LoadParseTsRaises(r)
    \/ \E r \in HistoryRecords : LoadSkipLine(r)
    \/ \E r \in HistoryRecords : LoadFileChange(r)
    \/ LoadReturn

SpecLoad == InitLoad /\ [][NextLoad]_vars

(***************************************************************************)
(* Properties of load_commits.                                             *)
(***************************************************************************)
RECURSIVE SumOver(_, _)
SumOver(f, S) ==
    IF S = {} THEN 0
    ELSE LET x == CHOOSE y \in S : TRUE IN f[x] + SumOver(f, S \ {x})

NoDuplicates(seq) == \A i, j \in 1..Len(seq) : seq[i] = seq[j] => i = j

\* the lines that started a commit
StartedAt ==
    {i \in 1..Len(output) :
        IsHeader(output[i]) /\ ~(lpc = "raised" /\ i = Len(output))}

\* the line that started the k-th commit, given the lines that started one
StartOf(started, k) ==
    CHOOSE i \in started : Cardinality({j \in started : j <= i}) = k

\* the positions of the output read while the k-th commit was the current one
SpanOf(started, k) ==
    {i \in 1..Len(output) :
        /\ StartOf(started, k) < i
        /\ k < Len(commits) => i < StartOf(started, k + 1)}

\* the file-change records printed for path p among the positions span
ChangesOf(span, p) ==
    {i \in span : emitted[i].kind = "file" /\ emitted[i].path = p}

\* the count a numstat field stands for: "-" marks a binary file
Counted(raw) == IF raw = <<"-">> THEN 0 ELSE ToInt(raw)

Min(S) == CHOOSE x \in S : \A y \in S : x <= y

\* C1: in every commit the per-file insertions sum to the commit's
\* insertions and the per-file deletions to its deletions, whenever
\* binary_numstat is not set.
C1_StatsSumToTotals ==
    \A k \in 1..Len(commits) :
        LET c == commits[k] IN
        ~c.binary_numstat =>
            /\ SumOver([p \in DOMAIN c.file_stats |-> c.file_stats[p][1]],
                       DOMAIN c.file_stats) = c.insertions
            /\ SumOver([p \in DOMAIN c.file_stats |-> c.file_stats[p][2]],
                       DOMAIN c.file_stats) = c.deletions

\* C1 witness: a returned commit with two files, one of them changed by two
\* lines, no binary marker, and non-zero totals.
C1_Witness ==
    /\ lpc = "returned"
    /\ \E k \in 1..Len(result) :
        /\ ~result[k].binary_numstat
        /\ Len(result[k].files) = 2
        /\ result[k].insertions = 4
        /\ result[k].deletions = 5

\* C2 (as stated): a file-change line with three tab-delimited fields printed
\* after a commit header never makes the loader raise, its path is registered
\* in the owning commit's files, and the owning commit has binary_numstat set
\* exactly if one of its file-change lines had a field that is no integer.
LastRec == emitted[Len(emitted)]

FileLinesSinceHeader ==
    LET h == CHOOSE i \in 1..Len(emitted) :
                 /\ emitted[i].kind = "commit"
                 /\ \A j \in (i + 1)..Len(emitted) : emitted[j].kind # "commit"
    IN  {i \in (h + 1)..Len(emitted) : emitted[i].kind = "file"}

C2_FileLineRegistered ==
    ( /\ Len(emitted) > 0
      /\ LastRec.kind = "file"
      /\ \E j \in 1..Len(emitted) : emitted[j].kind = "commit" )
    =>
    /\ lpc # "raised"
    /\ current > 0
    /\ LastRec.path \in Range(commits[current].files)
    /\ commits[current].binary_numstat =
         (\E i \in FileLinesSinceHeader :
             ~IsDigit(emitted[i].ins) \/ ~IsDigit(emitted[i].dels))

\* C3 (as stated): when the version-control invocation fails (non-zero exit
\* or missing repository location) load_commits never raises and returns an
\* empty list.
GitFails == ~git.cwd_exists \/ git.returncode # 0

C3_FailureYieldsEmpty ==
    (GitFails /\ lpc # "start") =>
        /\ lpc # "raised"
        /\ commits = <<>>
        /\ lpc = "returned" => result = <<>>

\* C4 (as stated): a commit record is started only by a line that splits
\* into exactly four pipe-delimited fields whose first is 40 hexadecimal
\* characters.
IsHexId(s) == Len(s) = ShaLen /\ \A i \in 1..Len(s) : s[i] \in HexChars

FourFieldHexHeader(line) ==
    LET parts == Split(line, PIPE, -1) IN Len(parts) = 4 /\ IsHexId(parts[1])

C4_OnlyHexFourFieldHeaders ==
    [][Len(commits') > Len(commits) =>
          FourFieldHexHeader(output'[Len(output')])]_vars

\* C5 (as stated): merge_commit is true exactly if the commit header lists
\* more than one parent hash, whatever the subject.
C5_MergeIffManyParents ==
    ( /\ Len(emitted) > 0
      /\ LastRec.kind = "commit"
      /\ lpc # "raised" )
    =>
    /\ current = Len(commits)
    /\ current > 0
    /\ commits[current].merge_commit = (Len(LastRec.parents) > 1)

\* C6: in every commit, files has no duplicate path, lists the paths in the
\* order of their first file-change line, has the paths of file_stats as its
\* set, and the lines of one path accumulate into that path's single entry.
C6_FilesOrderedUnique ==
    LET started == StartedAt IN
    \A k \in 1..Len(commits) :
        LET c == commits[k]
            span == SpanOf(started, k)
            first == [p \in Range(c.files) |->
                        IF ChangesOf(span, p) = {} THEN 0
                        ELSE Min(ChangesOf(span, p))]
        IN
        /\ NoDuplicates(c.files)
        /\ Range(c.files) = DOMAIN c.file_stats
        /\ \A p \in Range(c.files) : first[p] > 0
        /\ \A i, j \in 1..Len(c.files) :
              i < j <=> first[c.files[i]] < first[c.files[j]]
        /\ \A p \in DOMAIN c.file_stats :
              /\ c.file_stats[p][1] =
                   SumOver([i \in ChangesOf(span, p) |-> Counted(emitted[i].ins)],
                           ChangesOf(span, p))
              /\ c.file_stats[p][2] =
                   SumOver([i \in ChangesOf(span, p) |-> Counted(emitted[i].dels)],
                           ChangesOf(span, p))

\* C6 witness: a returned commit that lists b before a, a having been
\* changed by two lines that accumulated.
C6_Witness ==
    /\ lpc = "returned"
    /\ \E k \in 1..Len(result) :
        /\ result[k].files = << <<"b">>, <<"a">> >>
        /\ result[k].file_stats[<<"a">>] = <<2, 4>>

(***************************************************************************)
(* lib/symbol_extractor.py: parse_diff_hunks                               *)
(***************************************************************************)
At(s, i) == IF i \in 1..Len(s) THEN s[i] ELSE ""

\* the position after the run of whitespace (\s) that starts at i
RECURSIVE SkipSpace(_, _)
SkipSpace(s, i) == IF At(s, i) \in WhiteSpace THEN SkipSpace(s, i + 1) ELSE i

\* the position after the run of digits (\d) that starts at i
RECURSIVE SkipDigits(_, _)
SkipDigits(s, i) == IF At(s, i) \in Digits THEN SkipDigits(s, i + 1) ELSE i

\* (\d+)(?:,(\d+))? at position i: where it ends (0 when it does not match)
\* and the two groups (the second empty when absent)
RangeAt(s, i) ==
    LET e1 == SkipDigits(s, i)
        e2 == SkipDigits(s, e1 + 1)
        counted == At(s, e1) = "," /\ e2 > e1 + 1
    IN  [end |-> IF e1 = i THEN 0 ELSE IF counted THEN e2 ELSE e1,
         start |-> SubSeq(s, i, e1 - 1),
         count |-> IF counted THEN SubSeq(s, e1 + 1, e2 - 1) ELSE <<>>]

\* _HUNK_RE.match(line), line 62:
\*   ^@@\s+-(\d+)(?:,(\d+))?\s+\+(\d+)(?:,(\d+))?\s+@@\s*(.*)$
HunkMatch(line) ==
    LET a == SkipSpace(line, 3)
        old == RangeAt(line, a + 1)
        b == SkipSpace(line, old.end)
        new == RangeAt(line, b + 1)
        c == SkipSpace(line, new.end)
        d == SkipSpace(line, c + 2)
        ok == /\ StartsWith(line, <<"@", "@">>)
              /\ a > 3 /\ At(line, a) = "-" /\ old.end > 0
              /\ b > old.end /\ At(line, b) = "+" /\ new.end > 0
              /\ c > new.end /\ At(line, c) = "@" /\ At(line, c + 1) = "@"
    IN  IF ok
        THEN [ok |-> TRUE, g1 |-> old.start, g2 |-> old.count,
              g3 |-> new.start, g4 |-> new.count,
              g5 |-> SubSeq(line, d, Len(line))]
        ELSE [ok |-> FALSE]

\* int(m.group(n) or "1"), lines 78 and 80
CountOr1(g) == IF g = <<>> THEN 1 ELSE ToInt(g)

\* lines 77-90
NewHunk(m) ==
    [old_start |-> ToInt(m.g1),
     old_count |-> CountOr1(m.g2),
     new_start |-> ToInt(m.g3),
     new_count |-> CountOr1(m.g4),
     header |-> Strip(m.g5),
     added_lines |-> <<>>,
     deleted_lines |-> <<>>]

\* line 97
IsFileMarker(line) ==
    StartsWith(line, <<"+", "+", "+">>) \/ StartsWith(line, <<"-", "-", "-">>)

\* the cursor after a recorded line that leaves it where it was
StayAfterRecord(n) == n

\* lines 102 and 105: the cursor after a recorded line
AfterRecord(n) == n + 1

(***************************************************************************)
(* The lines of `git show --format= --unified=0 <sha> -- <file>`.          *)
(***************************************************************************)
HdrTest ==
    <<"@", "@", " ", "-", "1", ",", "2", " ", "+", "1", ",", "3", " ",
      "@", "@", " ", "d", "e", "f", " ", "g">>

HdrBare ==
    <<"@", "@", " ", "-", "5", " ", "+", "7", " ", "@", "@">>

HdrAddOne ==
    <<"@", "@", " ", "-", "0", ",", "0", " ", "+", "1", " ", "@", "@">>

DelLine1 ==
    <<"-", "l", "i", "n", "e", "1">>

AddLine1a ==
    <<"+", "l", "i", "n", "e", "1", "a">>

AddLine2 ==
    <<"+", "l", "i", "n", "e", "2">>

AddPlusPlus ==
    <<"+", "+", "+", "i">>

NoNewline ==
    <<"\\", " ", "N", "o", " ", "n", "e", "w", "l", "i", "n", "e", " ",
      "a", "t", " ", "e", "n", "d", " ", "o", "f", " ", "f", "i", "l",
      "e">>

OldFileMarker ==
    <<"-", "-", "-", " ", "a", "/", "f">>

DiffTexts ==
    {HdrTest, HdrBare, HdrAddOne, DelLine1, AddLine1a,
     AddLine2, AddPlusPlus, NoNewline, OldFileMarker}

(***************************************************************************)
(* parse_diff_hunks as a state machine: one step per line of the text.     *)
(***************************************************************************)
InitDiff ==
    /\ dpc = "loop"
    /\ diff_lines = <<>>
    /\ hunks = <<>>
    /\ cur_hunk = <<>>
    /\ old_line = 0
    /\ new_line = 0
    /\ parsed = <<>>
    /\ LoadIdle
    /\ MapIdle
    /\ RestIdle

\* the loop of line 71 has another line to read
NextDiffLineIs(line) ==
    /\ dpc = "loop"
    /\ Len(diff_lines) < MaxDiffLines
    /\ diff_lines' = Append(diff_lines, line)

\* lines 72-93: a hunk header closes the current hunk and opens the next
DiffHeader(line) ==
    /\ NextDiffLineIs(line)
    /\ HunkMatch(line).ok
    /\ hunks' = IF cur_hunk # <<>> THEN Append(hunks, cur_hunk[1]) ELSE hunks
    /\ cur_hunk' = <<NewHunk(HunkMatch(line))>>
    /\ old_line' = NewHunk(HunkMatch(line)).old_start
    /\ new_line' = NewHunk(HunkMatch(line)).new_start
    /\ UNCHANGED <<dpc, parsed>>
    /\ UNCHANGED <<loadVars, mapVars, restVars>>

\* lines 95-98: a line before the first header, or a +++ / --- line
DiffSkip(line) ==
    /\ NextDiffLineIs(line)
    /\ ~HunkMatch(line).ok
    /\ cur_hunk = <<>> \/ IsFileMarker(line)
    /\ UNCHANGED <<dpc, hunks, cur_hunk, old_line, new_line, parsed>>
    /\ UNCHANGED <<loadVars, mapVars, restVars>>

\* lines 100-102
DiffAdded(line) ==
    /\ NextDiffLineIs(line)
    /\ ~HunkMatch(line).ok
    /\ cur_hunk # <<>> /\ ~IsFileMarker(line)
    /\ StartsWith(line, <<"+">>)
    /\ cur_hunk' = <<[cur_hunk[1] EXCEPT !.added_lines = Append(@, new_line)]>>
    /\ new_line' = AfterRecord(new_line)
    /\ UNCHANGED <<dpc, hunks, old_line, parsed>>
    /\ UNCHANGED <<loadVars, mapVars, restVars>>

\* lines 103-105
DiffDeleted(line) ==
    /\ NextDiffLineIs(line)
    /\ ~HunkMatch(line).ok
    /\ cur_hunk # <<>> /\ ~IsFileMarker(line)
    /\ ~StartsWith(line, <<"+">>)
    /\ StartsWith(line, <<"-">>)
    /\ cur_hunk' = <<[cur_hunk[1] EXCEPT !.deleted_lines = Append(@, old_line)]>>
    /\ old_line' = AfterRecord(old_line)
    /\ UNCHANGED <<dpc, hunks, new_line, parsed>>
    /\ UNCHANGED <<loadVars, mapVars, restVars>>

\* lines 106-108
DiffOther(line) ==
    /\ NextDiffLineIs(line)
    /\ ~HunkMatch(line).ok
    /\ cur_hunk # <<>> /\ ~IsFileMarker(line)
    /\ ~StartsWith(line, <<"+">>)
    /\ ~StartsWith(line, <<"-">>)
    /\ old_line' = old_line + 1
    /\ new_line' = new_line + 1
    /\ UNCHANGED <<dpc, hunks, cur_hunk, parsed>>
    /\ UNCHANGED <<loadVars, mapVars, restVars>>

\* lines 110-112: the text is exhausted
DiffReturn ==
    /\ dpc = "loop"
    /\ dpc' = "returned"
    /\ hunks' = IF cur_hunk # <<>> THEN Append(hunks, cur_hunk[1]) ELSE hunks
    /\ parsed' = hunks'
    /\ UNCHANGED <<diff_lines, cur_hunk, old_line, new_line>>
    /\ UNCHANGED <<loadVars, mapVars, restVars>>

NextDiff ==
    \/ \E line \in DiffTexts : DiffHeader(line)
    \/ \E line \in DiffTexts : DiffSkip(line)
    \/ \E line \in DiffTexts : DiffAdded(line)
    \/ \E line \in DiffTexts : DiffDeleted(line)
    \/ \E line \in DiffTexts : DiffOther(line)
    \/ DiffReturn

SpecDiff == InitDiff /\ [][NextDiff]_vars

(***************************************************************************)
(* Properties of parse_diff_hunks.                                         *)
(***************************************************************************)
\* the hunks built so far, the open one last
AllHunks == IF dpc = "returned" THEN parsed ELSE hunks \o cur_hunk

HeadersAt == {i \in 1..Len(diff_lines) : HunkMatch(diff_lines[i]).ok}

\* the positions of the body of the j-th hunk of the text
BodyOf(heads, j) ==
    LET h == CHOOSE i \in heads : Cardinality({x \in heads : x <= i}) = j
    IN  {i \in (h + 1)..Len(diff_lines) : \A x \in heads : x > h => i < x}

LinesWith(body, c) == {i \in body : At(diff_lines[i], 1) = c}

\* a body as `--unified=0` prints it: added lines, deleted lines and the
\* no-newline marker, as many added and deleted lines as the header counts
IsZeroContextBody(body, hunk) ==
    /\ \A i \in body : At(diff_lines[i], 1) \in {"+", "-", "\\"}
    /\ Cardinality(LinesWith(body, "+")) = hunk.new_count
    /\ Cardinality(LinesWith(body, "-")) = hunk.old_count

CountFrom(start, n) == [k \in 1..n |-> start + k - 1]

\* C7 (as stated): on a zero-context diff the k-th '+' line of a hunk body is
\* recorded as added line new_start+k-1 and the k-th '-' line as deleted line
\* old_start+k-1; the text '@@ -1,2 +1,3 @@ def g / -line1 / +line1a /
\* +line2' yields one hunk with added_lines=[1,2] and deleted_lines=[1].
C7_LinesNumberedFromStart ==
    dpc = "returned" =>
        LET heads == HeadersAt IN
        /\ \A j \in 1..Len(parsed) :
              LET body == BodyOf(heads, j) IN
              IsZeroContextBody(body, parsed[j]) =>
                  /\ parsed[j].added_lines =
                       CountFrom(parsed[j].new_start,
                                 Cardinality(LinesWith(body, "+")))
                  /\ parsed[j].deleted_lines =
                       CountFrom(parsed[j].old_start,
                                 Cardinality(LinesWith(body, "-")))
        /\ diff_lines = <<HdrTest, DelLine1, AddLine1a, AddLine2>> =>
              /\ Len(parsed) = 1
              /\ parsed[1].added_lines = <<1, 2>>
              /\ parsed[1].deleted_lines = <<1>>

StrictlyIncreasing(seq) == \A i \in 1..(Len(seq) - 1) : seq[i] < seq[i + 1]

\* C8: in every hunk, on any input text, added_lines is strictly increasing
\* and deleted_lines is strictly increasing.
C8_LineNumbersIncrease ==
    \A j \in 1..Len(AllHunks) :
        /\ StrictlyIncreasing(AllHunks[j].added_lines)
        /\ StrictlyIncreasing(AllHunks[j].deleted_lines)

\* C8 witness: a returned hunk with two added lines around a line that is
\* neither added nor deleted.
C8_Witness ==
    /\ dpc = "returned"
    /\ \E j \in 1..Len(parsed) : parsed[j].added_lines = <<1, 3>>

\* C9 (as stated): no returned hunk has both added_lines and deleted_lines
\* empty.
C9_NoEmptyHunk ==
    dpc = "returned" =>
        \A j \in 1..Len(parsed) :
            parsed[j].added_lines # <<>> \/ parsed[j].deleted_lines # <<>>

(***************************************************************************)
(* lib/symbol_extractor.py: map_hunks_to_symbols                           *)
(***************************************************************************)
\* line 124
Changed(hunk) == Range(hunk.added_lines) \cup Range(hunk.deleted_lines)

\* the increment of a symbol that counts every changed line in its span
TouchPerLine(hunk, span) ==
    Cardinality({ln \in Changed(hunk) : span[1] <= ln /\ ln <= span[2]})

\* lines 126-127: what one hunk adds to the count of a symbol
Touch(hunk, span) ==
    IF \E ln \in Changed(hunk) : span[1] <= ln /\ ln <= span[2] THEN 1 ELSE 0

\* Counter lookup: a missing key counts 0
Count(counter, key) == IF key \in DOMAIN counter THEN counter[key] ELSE 0

\* lines 125-127: the Counter after one hunk; a key appears when incremented
AfterHunk(counter, hunk, symbols) ==
    LET hit == {sym \in DOMAIN symbols : Touch(hunk, symbols[sym]) > 0}
    IN  [sym \in DOMAIN counter \cup hit |->
            Count(counter, sym)
            + (IF sym \in hit THEN Touch(hunk, symbols[sym]) ELSE 0)]

Hunk(os, oc, ns, nc, header, added, deleted) ==
    [old_start |-> os, old_count |-> oc, new_start |-> ns, new_count |-> nc,
     header |-> header, added_lines |-> added, deleted_lines |-> deleted]

\* hunks as parse_diff_hunks returns them
HunkPool ==
    { Hunk(1, 2, 1, 3, <<"d", "e", "f", " ", "g">>, <<1, 2>>, <<1>>),
      Hunk(5, 1, 4, 0, <<>>, <<>>, <<5>>),
      Hunk(7, 0, 8, 1, <<>>, <<8>>, <<>>),
      Hunk(3, 1, 3, 1, <<>>, <<>>, <<>>) }

\* spans as extract_symbols returns them: class A with method A.f, function g
SpanPool ==
    (<<"A">> :> <<1, 6>>) @@ (<<"A", ".", "f">> :> <<2, 3>>)
    @@ (<<"g">> :> <<8, 9>>)

SymbolTables == {[sym \in names |-> SpanPool[sym]] : names \in SUBSET DOMAIN SpanPool}

HunkLists == UNION {[1..n -> HunkPool] : n \in 0..MaxHunks}

EmptyCounter == [sym \in {} |-> 0]

InitMap ==
    /\ mpc = "start"
    /\ m_hunks \in HunkLists
    /\ m_symbols \in SymbolTables
    /\ m_i = 0
    /\ touches = EmptyCounter
    /\ LoadIdle
    /\ DiffIdle
    /\ RestIdle

\* lines 119-121: an empty table returns the empty Counter
MapNoSymbols ==
    /\ mpc = "start"
    /\ DOMAIN m_symbols = {}
    /\ mpc' = "returned"
    /\ UNCHANGED <<m_hunks, m_symbols, m_i, touches>>
    /\ UNCHANGED <<loadVars, diffVars, restVars>>

\* lines 119-123: a non-empty table enters the loop
MapEnterLoop ==
    /\ mpc = "start"
    /\ DOMAIN m_symbols # {}
    /\ mpc' = "loop"
    /\ UNCHANGED <<m_hunks, m_symbols, m_i, touches>>
    /\ UNCHANGED <<loadVars, diffVars, restVars>>

\* lines 123-127: one hunk against every symbol
MapVisitHunk ==
    /\ mpc = "loop"
    /\ m_i < Len(m_hunks)
    /\ m_i' = m_i + 1
    /\ touches' = AfterHunk(touches, m_hunks[m_i + 1], m_symbols)
    /\ UNCHANGED <<mpc, m_hunks, m_symbols>>
    /\ UNCHANGED <<loadVars, diffVars, restVars>>

\* line 128
MapReturn ==
    /\ mpc = "loop"
    /\ m_i = Len(m_hunks)
    /\ mpc' = "returned"
    /\ UNCHANGED <<m_hunks, m_symbols, m_i, touches>>
    /\ UNCHANGED <<loadVars, diffVars, restVars>>

NextMap ==
    \/ MapNoSymbols
    \/ MapEnterLoop
    \/ MapVisitHunk
    \/ MapReturn

SpecMap == InitMap /\ [][NextMap]_vars

\* the hunks that change at least one line of the span
HunksIn(span) ==
    {i \in 1..Len(m_hunks) :
        \E ln \in Range(m_hunks[i].added_lines \o m_hunks[i].deleted_lines) :
            span[1] <= ln /\ ln <= span[2]}

\* C10: with a non-empty symbol table the touch count of every symbol is the
\* number of hunks that change a line of its span, counted once per hunk and
\* for every enclosing symbol, so no count exceeds the number of hunks.
C10_TouchCountsHunks ==
    (mpc = "returned" /\ DOMAIN m_symbols # {}) =>
        /\ DOMAIN touches \subseteq DOMAIN m_symbols
        /\ \A sym \in DOMAIN m_symbols :
              /\ Count(touches, sym) = Cardinality(HunksIn(m_symbols[sym]))
              /\ Count(touches, sym) <= Len(m_hunks)

\* C10 witness: a hunk changing lines 1 and 2 touched class A and method
\* A.f once each, and a second hunk touched g but no other symbol.
C10_Witness ==
    /\ mpc = "returned"
    /\ Len(m_hunks) = 2
    /\ m_hunks[1].added_lines = <<1, 2>>
    /\ DOMAIN m_symbols = DOMAIN SpanPool
    /\ touches = (<<"A">> :> 1) @@ (<<"A", ".", "f">> :> 1) @@ (<<"g">> :> 1)

(***************************************************************************)
(* lib/symbol_extractor.py: symbols_from_hunk_headers                      *)
(***************************************************************************)
Letters ==
    {"a", "b", "c", "d", "e", "f", "g", "h", "i", "j", "k", "l", "m",
     "n", "o", "p", "q", "r", "s", "t", "u", "v", "w", "x", "y", "z",
     "A", "B", "C", "D", "E", "F", "G", "H", "I", "J", "K", "L", "M",
     "N", "O", "P", "Q", "R", "S", "T", "U", "V", "W", "X", "Y", "Z"}

\* [A-Za-z_] and [A-Za-z0-9_]
IdentStart == Letters \cup {"_"}
IdentChars == IdentStart \cup Digits

\* the alternatives of (?:def|class|function), in the order they are tried
Keywords ==
    << <<"d", "e", "f">>,
       <<"c", "l", "a", "s", "s">>,
       <<"f", "u", "n", "c", "t", "i", "o", "n">> >>

\* the word w stands in s at position i
HasAt(s, i, w) ==
    i + Len(w) - 1 <= Len(s) /\ SubSeq(s, i, i + Len(w) - 1) = w

\* the position after the run of identifier characters that starts at i
RECURSIVE SkipIdent(_, _)
SkipIdent(s, i) == IF At(s, i) \in IdentChars THEN SkipIdent(s, i + 1) ELSE i

\* alternative k of the pattern tried at position i: group 1, or <<>> when
\* the keyword, the run of whitespace or the identifier is missing
DeclAt(s, i, k) ==
    LET w == i + Len(Keywords[k])
        b == SkipSpace(s, w)
    IN  IF HasAt(s, i, Keywords[k]) /\ b > w /\ At(s, b) \in IdentStart
        THEN SubSeq(s, b, SkipIdent(s, b) - 1)
        ELSE <<>>

\* re.search from position i: the leftmost match, first alternative first;
\* <<>> when the pattern matches nowhere
RECURSIVE DeclSearch(_, _)
DeclSearch(s, i) ==
    LET ks == {k \in 1..Len(Keywords) : DeclAt(s, i, k) # <<>>}
    IN  IF i > Len(s) THEN <<>>
        ELSE IF ks # {} THEN DeclAt(s, i, Min(ks))
        ELSE DeclSearch(s, i + 1)

\* line 141: header[:80]
HeaderCut == 80

Truncated(s) == SubSeq(s, 1, Min({HeaderCut, Len(s)}))

\* lines 137-141: the key a non-empty header is counted under
PseudoSymbol(header) ==
    LET m == DeclSearch(header, 1)
    IN  IF m # <<>> THEN m ELSE Truncated(header)

\* the Counter after one hunk when a hunk without header is counted too
AfterHeaderNoSkip(counter, hunk) ==
    LET key == PseudoSymbol(hunk.header)
    IN  [sym \in DOMAIN counter \cup {key} |->
            Count(counter, sym) + (IF sym = key THEN 1 ELSE 0)]

\* lines 133-141: the Counter after one hunk
AfterHeader(counter, hunk) ==
    IF hunk.header = <<>> THEN counter
    ELSE LET key == PseudoSymbol(hunk.header)
         IN  [sym \in DOMAIN counter \cup {key} |->
                 Count(counter, sym) + (IF sym = key THEN 1 ELSE 0)]

\* header texts as parse_diff_hunks leaves them (stripped, on one line)
HdrFunctionDemo ==
    <<"f", "u", "n", "c", "t", "i", "o", "n", " ", "d", "e", "m", "o">>
HdrClassTwoSpaces ==
    <<"c", "l", "a", "s", "s", " ", " ", "A", "(", "B", ")", ":">>
HdrDefG == <<"d", "e", "f", " ", "g">>
HdrTwoDecls ==
    <<"c", "l", "a", "s", "s", " ", "A", ":", " ", "d", "e", "f", " ", "f">>
HdrAssignment == <<"x", " ", "=", " ", "1">>
HdrDefault == <<"d", "e", "f", "a", "u", "l", "t", ":">>
HdrLong == Rep("y", HeaderCut + 5)

HeaderTexts ==
    { <<>>, HdrFunctionDemo, HdrClassTwoSpaces, HdrDefG, HdrTwoDecls,
      HdrAssignment, HdrDefault, HdrLong }

\* hunks that differ in their header only
HeaderHunks == {Hunk(10, 2, 10, 2, h, <<10>>, <<10>>) : h \in HeaderTexts}

HeaderHunkLists == UNION {[1..n -> HeaderHunks] : n \in 0..MaxHunks}

InitHdr ==
    /\ hpc = "loop"
    /\ h_hunks \in HeaderHunkLists
    /\ h_i = 0
    /\ counts = EmptyCounter
    /\ IdleExceptHdr

NextHunkIs(hunk) ==
    /\ hpc = "loop"
    /\ h_i < Len(h_hunks)
    /\ hunk = h_hunks[h_i + 1]

\* lines 134-136: a hunk without header is passed over
HdrSkipEmpty ==
    \E hunk \in HeaderHunks :
        /\ NextHunkIs(hunk)
        /\ hunk.header = <<>>
        /\ h_i' = h_i + 1
        /\ counts' = AfterHeader(counts, hunk)
        /\ UNCHANGED <<hpc, h_hunks>>
        /\ UNCHANGED exceptHdr

\* lines 137-139: the header holds a declaration; its identifier is counted
HdrDeclared ==
    \E hunk \in HeaderHunks :
        /\ NextHunkIs(hunk)
        /\ hunk.header # <<>>
        /\ DeclSearch(hunk.header, 1) # <<>>
        /\ h_i' = h_i + 1
        /\ counts' = AfterHeader(counts, hunk)
        /\ UNCHANGED <<hpc, h_hunks>>
        /\ UNCHANGED exceptHdr

\* lines 140-141: no declaration; the first characters of the header count
HdrRaw ==
    \E hunk \in HeaderHunks :
        /\ NextHunkIs(hunk)
        /\ hunk.header # <<>>
        /\ DeclSearch(hunk.header, 1) = <<>>
        /\ h_i' = h_i + 1
        /\ counts' = AfterHeader(counts, hunk)
        /\ UNCHANGED <<hpc, h_hunks>>
        /\ UNCHANGED exceptHdr

\* line 142
HdrReturn ==
    /\ hpc = "loop"
    /\ h_i = Len(h_hunks)
    /\ hpc' = "returned"
    /\ UNCHANGED <<h_hunks, h_i, counts>>
    /\ UNCHANGED exceptHdr

NextHdr ==
    \/ HdrSkipEmpty
    \/ HdrDeclared
    \/ HdrRaw
    \/ HdrReturn

SpecHdr == InitHdr /\ [][NextHdr]_vars

\* the identifiers that follow a declaration keyword and whitespace in s
DeclaredIn(s) ==
    { SubSeq(s, b, e) : <<b, e>> \in
        { be \in (1..Len(s)) \X (1..Len(s)) :
            /\ be[1] <= be[2]
            /\ s[be[1]] \in IdentStart
            /\ \A j \in be[1]..be[2] : s[j] \in IdentChars
            /\ At(s, be[2] + 1) \notin IdentChars
            /\ \E k \in 1..Len(Keywords), i \in 1..be[1] :
                  /\ HasAt(s, i, Keywords[k])
                  /\ i + Len(Keywords[k]) < be[1]
                  /\ \A j \in (i + Len(Keywords[k]))..(be[1] - 1) :
                        s[j] \in WhiteSpace } }

\* the keys a header may be counted under
Admissible(header) ==
    IF DeclaredIn(header) # {} THEN DeclaredIn(header)
    ELSE {t \in {SubSeq(header, 1, n) : n \in 0..Len(header)} :
            /\ Len(t) <= HeaderCut
            /\ Len(t) = Len(header) \/ Len(t) = HeaderCut}

WithHeader == {i \in 1..Len(h_hunks) : h_hunks[i].header # <<>>}

\* C11: every hunk with a non-empty header is counted once under exactly
\* one key, the identifier after a declaration keyword of its header or,
\* without one, the header cut to 80 characters; hunks without header are
\* counted nowhere, so the counts sum to the number of hunks with a header.
C11_EveryHeaderCountedOnce ==
    hpc = "returned" =>
        /\ SumOver(counts, DOMAIN counts) = Cardinality(WithHeader)
        /\ \E key \in [WithHeader -> DOMAIN counts \cup {<<>>}] :
              /\ \A i \in WithHeader : key[i] \in Admissible(h_hunks[i].header)
              /\ \A sym \in DOMAIN counts :
                    counts[sym] = Cardinality({i \in WithHeader : key[i] = sym})

\* C11 witness: 'function demo' was counted under demo, an 85-character
\* header without declaration under its first 80 characters.
C11_Witness ==
    /\ hpc = "returned"
    /\ Len(h_hunks) = 2
    /\ h_hunks[1].header = HdrFunctionDemo
    /\ h_hunks[2].header = HdrLong
    /\ counts = (<<"d", "e", "m", "o">> :> 1) @@ (Rep("y", HeaderCut) :> 1)

(***************************************************************************)
(* analyze_symbols.py: _symbol_rows_for_commit                             *)
(***************************************************************************)
\* map_hunks_to_symbols(hunks, symbols), lines 115-128 of the extractor
RECURSIVE MapFrom(_, _, _)
MapFrom(counter, hs, symbols) ==
    IF Len(hs) = 0 THEN counter
    ELSE MapFrom(AfterHunk(counter, Head(hs), symbols), Tail(hs), symbols)

MapHunksToSymbols(hs, symbols) ==
    IF DOMAIN symbols = {} THEN EmptyCounter
    ELSE MapFrom(EmptyCounter, hs, symbols)

\* symbols_from_hunk_headers(hunks), lines 131-142 of the extractor
RECURSIVE HeadersFrom(_, _)
HeadersFrom(counter, hs) ==
    IF Len(hs) = 0 THEN counter
    ELSE HeadersFrom(AfterHeader(counter, Head(hs)), Tail(hs))

SymbolsFromHunkHeaders(hs) == HeadersFrom(EmptyCounter, hs)

\* line 54: the key of the row of an unresolved commit
Unknown == <<"u", "n", "k", "n", "o", "w", "n">>

\* a commit that is never passed over
NeverSkipped(c) == FALSE

\* line 33: merge commits are passed over
IsSkipped(c) == c.merge_commit

\* the label of an extractor that marks the fallback with no name
ExtractorUnnamed(symbols) == IF DOMAIN symbols # {} THEN "ast" ELSE ""

\* the label of an extractor that never falls back
ExtractorAlwaysAst(symbols) == "ast"

\* lines 44-49: the label of the attribution method
ExtractorOf(symbols) == IF DOMAIN symbols # {} THEN "ast" ELSE "hunk_header"

\* lines 61-65: hunk h is left out of the sums of the row of symbol
LeftOut(h, symbol, symbols, label) ==
    /\ label = "ast"
    /\ symbol \in DOMAIN symbols
    /\ ~\E ln \in Changed(h) :
            symbols[symbol][1] <= ln /\ ln <= symbols[symbol][2]

\* lines 58-66: the sums of the row of symbol over the hunks hs
RECURSIVE AddedOver(_, _, _, _)
AddedOver(hs, symbol, symbols, label) ==
    IF Len(hs) = 0 THEN 0
    ELSE (IF LeftOut(Head(hs), symbol, symbols, label) THEN 0
          ELSE Len(Head(hs).added_lines))
         + AddedOver(Tail(hs), symbol, symbols, label)

RECURSIVE DeletedOver(_, _, _, _)
DeletedOver(hs, symbol, symbols, label) ==
    IF Len(hs) = 0 THEN 0
    ELSE (IF LeftOut(Head(hs), symbol, symbols, label) THEN 0
          ELSE Len(Head(hs).deleted_lines))
         + DeletedOver(Tail(hs), symbol, symbols, label)

\* lines 68-83: the row of one symbol (repo, sha, ts and file are passed on
\* from the arguments and left out)
RowOf(symbol, n, hs, symbols, label, flags) ==
    LET added == AddedOver(hs, symbol, symbols, label)
        deleted == DeletedOver(hs, symbol, symbols, label)
    IN  [symbol_id |-> symbol, symbol_display |-> symbol, touches |-> n,
         added |-> added, deleted |-> deleted, churn |-> added + deleted,
         extractor |-> label, flags |-> flags]

\* a file that declares a function named unknown on lines 20 and 21
UnknownTable == (Unknown :> <<20, 21>>)

\* what extract_symbols makes of the file at the commit: a table, the empty
\* table, or an exception other than SyntaxError
SourceOutcomes ==
    {[raises |-> FALSE, symbols |-> t] : t \in SymbolTables \cup {UnknownTable}}
    \cup {[raises |-> TRUE, symbols |-> EmptyCounter]}

\* what parse_diff_hunks makes of the diff of the commit
RowHunkPool ==
    HunkPool \cup {Hunk(10, 2, 10, 2, HdrFunctionDemo, <<10>>, <<10>>)}

RowHunkLists == UNION {[1..n -> RowHunkPool] : n \in 0..MaxHunks}

InitRows ==
    /\ rpc = "start"
    /\ commit \in {[merge_commit |-> b] : b \in BOOLEAN}
    /\ r_diff \in RowHunkLists
    /\ r_source \in SourceOutcomes
    /\ queries = <<>>
    /\ r_hunks = <<>>
    /\ r_symbols = EmptyCounter
    /\ touched = EmptyCounter
    /\ extractor = ""
    /\ quality_flags = <<>>
    /\ rows = <<>>
    /\ returned = <<>>
    /\ IdleExceptRows

\* lines 32-34
RowsMergeSkipped ==
    /\ rpc = "start"
    /\ IsSkipped(commit)
    /\ returned' = <<[rows |-> <<>>, flags |-> <<"merge_skipped">>]>>
    /\ rpc' = "returned"
    /\ UNCHANGED <<commit, r_diff, r_source, queries, r_hunks, r_symbols,
                   touched, extractor, quality_flags, rows>>
    /\ UNCHANGED exceptRows

\* lines 36-39: the diff is queried and holds no hunk
RowsNoHunks ==
    /\ rpc = "start"
    /\ ~IsSkipped(commit)
    /\ r_diff = <<>>
    /\ queries' = Append(queries, "diff")
    /\ r_hunks' = r_diff
    /\ returned' = <<[rows |-> <<>>, flags |-> <<>>]>>
    /\ rpc' = "returned"
    /\ UNCHANGED <<commit, r_diff, r_source, r_symbols, touched, extractor,
                   quality_flags, rows>>
    /\ UNCHANGED exceptRows

\* lines 36-38: the diff is queried and holds hunks
RowsDiffed ==
    /\ rpc = "start"
    /\ ~IsSkipped(commit)
    /\ r_diff # <<>>
    /\ queries' = Append(queries, "diff")
    /\ r_hunks' = r_diff
    /\ rpc' = "diffed"
    /\ UNCHANGED <<commit, r_diff, r_source, r_symbols, touched, extractor,
                   quality_flags, rows, returned>>
    /\ UNCHANGED exceptRows

\* lines 41-42: the file is queried and extract_symbols raises
RowsExtractRaises ==
    /\ rpc = "diffed"
    /\ r_source.raises
    /\ queries' = Append(queries, "show")
    /\ rpc' = "raised"
    /\ UNCHANGED <<commit, r_diff, r_source, r_hunks, r_symbols, touched,
                   extractor, quality_flags, rows, returned>>
    /\ UNCHANGED exceptRows

\* lines 41-46: the file is queried and declares symbols
RowsAst ==
    /\ rpc = "diffed"
    /\ ~r_source.raises
    /\ DOMAIN r_source.symbols # {}
    /\ queries' = Append(queries, "show")
    /\ r_symbols' = r_source.symbols
    /\ touched' = MapHunksToSymbols(r_hunks, r_source.symbols)
    /\ extractor' = ExtractorOf(r_source.symbols)
    /\ rpc' = "attributed"
    /\ UNCHANGED <<commit, r_diff, r_source, r_hunks, quality_flags, rows,
                   returned>>
    /\ UNCHANGED exceptRows

\* lines 41-50: the file is queried and declares nothing
RowsFallback ==
    /\ rpc = "diffed"
    /\ ~r_source.raises
    /\ DOMAIN r_source.symbols = {}
    /\ queries' = Append(queries, "show")
    /\ r_symbols' = r_source.symbols
    /\ touched' = SymbolsFromHunkHeaders(r_hunks)
    /\ extractor' = ExtractorOf(r_source.symbols)
    /\ quality_flags' = Append(quality_flags, "symbol_fallback_header")
    /\ rpc' = "attributed"
    /\ UNCHANGED <<commit, r_diff, r_source, r_hunks, rows, returned>>
    /\ UNCHANGED exceptRows

\* lines 52-54: nothing was touched
RowsUnresolved ==
    /\ rpc = "attributed"
    /\ DOMAIN touched = {}
    /\ quality_flags' = Append(quality_flags, "symbol_unresolved")
    /\ touched' = (Unknown :> Len(r_hunks))
    /\ rpc' = "rows"
    /\ UNCHANGED <<commit, r_diff, r_source, queries, r_hunks, r_symbols,
                   extractor, rows, returned>>
    /\ UNCHANGED exceptRows

\* line 52: something was touched
RowsResolved ==
    /\ rpc = "attributed"
    /\ DOMAIN touched # {}
    /\ rpc' = "rows"
    /\ UNCHANGED <<commit, r_diff, r_source, queries, r_hunks, r_symbols,
                   touched, extractor, quality_flags, rows, returned>>
    /\ UNCHANGED exceptRows

\* lines 56-84: the row of the next symbol of touched (the order of the
\* items of touched is left open)
RowsEmit ==
    /\ rpc = "rows"
    /\ \E symbol \in DOMAIN touched :
          /\ \A i \in 1..Len(rows) : rows[i].symbol_id # symbol
          /\ rows' = Append(rows, RowOf(symbol, touched[symbol], r_hunks,
                                        r_symbols, extractor, quality_flags))
    /\ UNCHANGED <<rpc, commit, r_diff, r_source, queries, r_hunks,
                   r_symbols, touched, extractor, quality_flags, returned>>
    /\ UNCHANGED exceptRows

\* line 85
RowsReturn ==
    /\ rpc = "rows"
    /\ Len(rows) = Cardinality(DOMAIN touched)
    /\ returned' = <<[rows |-> rows, flags |-> quality_flags]>>
    /\ rpc' = "returned"
    /\ UNCHANGED <<commit, r_diff, r_source, queries, r_hunks, r_symbols,
                   touched, extractor, quality_flags, rows>>
    /\ UNCHANGED exceptRows

NextRows ==
    \/ RowsMergeSkipped
    \/ RowsNoHunks
    \/ RowsDiffed
    \/ RowsExtractRaises
    \/ RowsAst
    \/ RowsFallback
    \/ RowsUnresolved
    \/ RowsResolved
    \/ RowsEmit
    \/ RowsReturn

SpecRows == InitRows /\ [][NextRows]_vars

RECURSIVE TotalAdded(_)
TotalAdded(hs) ==
    IF Len(hs) = 0 THEN 0 ELSE Len(Head(hs).added_lines) + TotalAdded(Tail(hs))

RECURSIVE TotalDeleted(_)
TotalDeleted(hs) ==
    IF Len(hs) = 0 THEN 0
    ELSE Len(Head(hs).deleted_lines) + TotalDeleted(Tail(hs))

\* hunk h is attributed to a symbol: with a symbol table, it changes a line
\* of some span; without one, it has a header
Attributed(h, symbols) ==
    IF DOMAIN symbols # {}
    THEN \E sym \in DOMAIN symbols, ln \in Range(h.added_lines \o h.deleted_lines) :
            symbols[sym][1] <= ln /\ ln <= symbols[sym][2]
    ELSE h.header # <<>>

\* a commit that is no merge, has hunks, and none of them attributed
UnresolvedCase ==
    /\ ~commit.merge_commit
    /\ Len(r_hunks) >= 1
    /\ \A i \in 1..Len(r_hunks) : ~Attributed(r_hunks[i], r_symbols)

\* C12: a commit that is no merge and whose hunks are attributed to no
\* symbol yields exactly one row, for 'unknown', whose touches is the number
\* of hunks and whose added and deleted are the totals over all hunks, and
\* reports symbol_unresolved; no other commit reports symbol_unresolved.
C12_UnresolvedYieldsUnknownRow ==
    rpc = "returned" =>
        /\ UnresolvedCase =>
              /\ Len(returned[1].rows) = 1
              /\ returned[1].rows[1].symbol_id = Unknown
              /\ returned[1].rows[1].touches = Len(r_hunks)
              /\ returned[1].rows[1].added = TotalAdded(r_hunks)
              /\ returned[1].rows[1].deleted = TotalDeleted(r_hunks)
              /\ "symbol_unresolved" \in Range(returned[1].flags)
        /\ "symbol_unresolved" \in Range(returned[1].flags) => UnresolvedCase

\* C13: a merge commit yields no row and exactly the flag merge_skipped, and
\* no diff or file-content query is issued for it; a commit that is no merge
\* never reports merge_skipped.
C13_MergeSkippedWithoutQuery ==
    /\ commit.merge_commit =>
          /\ queries = <<>>
          /\ rows = <<>>
          /\ rpc = "returned" =>
                returned = <<[rows |-> <<>>, flags |-> <<"merge_skipped">>]>>
    /\ ~commit.merge_commit =>
          /\ "merge_skipped" \notin Range(quality_flags)
          /\ rpc = "returned" => "merge_skipped" \notin Range(returned[1].flags)

\* C13 witness: a merge commit whose diff holds two hunks and whose file
\* declares symbols was returned for without a query.
C13_Witness ==
    /\ rpc = "returned"
    /\ commit.merge_commit
    /\ Len(r_diff) = 2
    /\ DOMAIN r_source.symbols = DOMAIN SpanPool
    /\ queries = <<>>
    /\ returned[1].flags = <<"merge_skipped">>

\* C14: every emitted row has extractor "ast" or "header_fallback".
C14_ExtractorAstOrHeaderFallback ==
    \A i \in 1..Len(rows) : rows[i].extractor \in {"ast", "header_fallback"}

\* C14 (amended): every emitted row has extractor "ast" or "hunk_header".
C14_ExtractorAstOrHunkHeader ==
    /\ \A i \in 1..Len(rows) : rows[i].extractor \in {"ast", "hunk_header"}
    /\ rpc = "returned" =>
          \A i \in 1..Len(returned[1].rows) :
              returned[1].rows[i].extractor \in {"ast", "hunk_header"}

\* C14 witness: a file without symbols and a hunk headed 'function demo'
\* yield a row for demo with extractor "hunk_header".
C14_Witness ==
    /\ rpc = "returned"
    /\ Len(returned[1].rows) = 1
    /\ returned[1].rows[1].symbol_id = <<"d", "e", "m", "o">>
    /\ returned[1].rows[1].extractor = "hunk_header"

(***************************************************************************)
(* lib/symbol_extractor.py: _SymbolVisitor and extract_symbols             *)
(***************************************************************************)
\* a node of the tree ast.parse returns: its class, its name (declarations
\* only), its lines, and its child statements in document order
Node(type, name, lineno, end_lineno, body) ==
    [type |-> type, name |-> name, lineno |-> lineno,
     end_lineno |-> end_lineno, body |-> body]

\* the node classes _SymbolVisitor has a visit method for (lines 33-49)
Declarations == {"ClassDef", "FunctionDef", "AsyncFunctionDef"}

\* top-level statements, on lines counted from 1, and the lines they take
StmtClassAWithF ==
    [height |-> 4,
     node |-> Node("ClassDef", <<"A">>, 1, 3,
                   <<Node("FunctionDef", <<"f">>, 2, 3, <<>>)>>)]
StmtDefG ==
    [height |-> 2, node |-> Node("FunctionDef", <<"g">>, 1, 2, <<>>)]
StmtClassAEmpty ==
    [height |-> 2, node |-> Node("ClassDef", <<"A">>, 1, 2, <<>>)]
StmtNestedDef ==
    [height |-> 4,
     node |-> Node("FunctionDef", <<"f">>, 1, 4,
                   <<Node("FunctionDef", <<"g">>, 2, 3, <<>>)>>)]
StmtIfDefG ==
    [height |-> 3,
     node |-> Node("If", <<>>, 1, 3,
                   <<Node("FunctionDef", <<"g">>, 2, 3, <<>>)>>)]
StmtAsyncDefH ==
    [height |-> 1, node |-> Node("AsyncFunctionDef", <<"h">>, 1, 1, <<>>)]
StmtAssign ==
    [height |-> 1, node |-> Node("Assign", <<>>, 1, 1, <<>>)]

Statements ==
    { StmtClassAWithF, StmtDefG, StmtClassAEmpty, StmtNestedDef, StmtIfDefG,
      StmtAsyncDefH, StmtAssign }

\* the node moved down by d lines
RECURSIVE Shift(_, _)
Shift(node, d) ==
    Node(node.type, node.name, node.lineno + d, node.end_lineno + d,
         [i \in 1..Len(node.body) |-> Shift(node.body[i], d)])

\* the body of the module made of the statements stmts, one after another
RECURSIVE Layout(_, _)
Layout(stmts, d) ==
    IF Len(stmts) = 0 THEN <<>>
    ELSE <<Shift(Head(stmts).node, d)>>
         \o Layout(Tail(stmts), d + Head(stmts).height)

\* what ast.parse does with each kind of source text: text with null bytes
\* is a SyntaxError or a ValueError, depending on the interpreter; an
\* expression nested too deep or too long for the parser is a RecursionError
\* or a MemoryError
ParseOutcomes(kind) ==
    CASE kind = "python" -> {"tree"}
      [] kind = "syntax_error" -> {"SyntaxError"}
      [] kind = "other_language" -> {"SyntaxError"}
      [] kind = "null_bytes" -> {"SyntaxError", "ValueError"}
      [] kind = "too_deep" -> {"RecursionError", "MemoryError"}

Unparsable == {"syntax_error", "other_language", "null_bytes", "too_deep"}

Sources ==
    {[kind |-> "python", body |-> Layout(stmts, 0)] :
        stmts \in UNION {[1..n -> Statements] : n \in 0..MaxStatements}}
    \cup {[kind |-> k, body |-> <<>>] : k \in Unparsable}

\* lines 26-27: the span of a node
StartOfNode(node) == node.lineno
EndOfNode(node) == IF node.end_lineno = 0 THEN node.lineno ELSE node.end_lineno

\* line 30: the dotted name of a declaration below the names on the stack
FullName(names, name) == Join(Append(names, name), <<".">>)

\* lines 25-31: _add_symbol; a later declaration of the same name replaces
\* the earlier entry
AddSymbol(table, names, node) ==
    IF StartOfNode(node) <= 0 THEN table
    ELSE (FullName(names, node.name) :> <<StartOfNode(node), EndOfNode(node)>>)
         @@ table

VisitOf(node) == [visit |-> TRUE, node |-> node]
PopItem == [visit |-> FALSE, node |-> <<>>]

\* generic_visit: the visits of the children, in order
VisitsOf(body) == [i \in 1..Len(body) |-> VisitOf(body[i])]

InitExt ==
    /\ epc = "start"
    /\ source \in Sources
    /\ agenda = <<>>
    /\ stack = <<>>
    /\ e_symbols = EmptyCounter
    /\ IdleExceptExt

\* lines 53-56: ast.parse raises SyntaxError; the empty mapping is returned
ExtSyntaxError ==
    /\ epc = "start"
    /\ "SyntaxError" \in ParseOutcomes(source.kind)
    /\ epc' = "returned"
    /\ UNCHANGED <<source, agenda, stack, e_symbols>>
    /\ UNCHANGED exceptExt

\* lines 53-54: ast.parse raises another exception, which is not caught
ExtParseRaises ==
    /\ epc = "start"
    /\ ParseOutcomes(source.kind) \ {"tree", "SyntaxError"} # {}
    /\ epc' = "raised"
    /\ UNCHANGED <<source, agenda, stack, e_symbols>>
    /\ UNCHANGED exceptExt

\* lines 53-58: ast.parse returns the tree and the visitor enters the module
ExtParsed ==
    /\ epc = "start"
    /\ "tree" \in ParseOutcomes(source.kind)
    /\ agenda' = VisitsOf(source.body)
    /\ epc' = "visit"
    /\ UNCHANGED <<source, stack, e_symbols>>
    /\ UNCHANGED exceptExt

\* lines 33-49: a declaration is recorded, its name pushed, its children
\* visited, its name popped
ExtVisitDeclaration ==
    /\ epc = "visit"
    /\ Len(agenda) > 0
    /\ Head(agenda).visit
    /\ Head(agenda).node.type \in Declarations
    /\ e_symbols' = AddSymbol(e_symbols, stack, Head(agenda).node)
    /\ stack' = Append(stack, Head(agenda).node.name)
    /\ agenda' = VisitsOf(Head(agenda).node.body) \o <<PopItem>> \o Tail(agenda)
    /\ UNCHANGED <<epc, source>>
    /\ UNCHANGED exceptExt

\* generic_visit of any other node: its children are visited
ExtVisitOther ==
    /\ epc = "visit"
    /\ Len(agenda) > 0
    /\ Head(agenda).visit
    /\ Head(agenda).node.type \notin Declarations
    /\ agenda' = VisitsOf(Head(agenda).node.body) \o Tail(agenda)
    /\ UNCHANGED <<epc, source, stack, e_symbols>>
    /\ UNCHANGED exceptExt

\* lines 37, 43, 49: self.stack.pop()
ExtPop ==
    /\ epc = "visit"
    /\ Len(agenda) > 0
    /\ ~Head(agenda).visit
    /\ stack' = SubSeq(stack, 1, Len(stack) - 1)
    /\ agenda' = Tail(agenda)
    /\ UNCHANGED <<epc, source, e_symbols>>
    /\ UNCHANGED exceptExt

\* line 59
ExtReturn ==
    /\ epc = "visit"
    /\ Len(agenda) = 0
    /\ epc' = "returned"
    /\ UNCHANGED <<source, agenda, stack, e_symbols>>
    /\ UNCHANGED exceptExt

NextExt ==
    \/ ExtSyntaxError
    \/ ExtParseRaises
    \/ ExtParsed
    \/ ExtVisitDeclaration
    \/ ExtVisitOther
    \/ ExtPop
    \/ ExtReturn

SpecExt == InitExt /\ [][NextExt]_vars

\* C15: whenever the source cannot be parsed (syntax error, other language,
\* binary content, nesting beyond the parser), extract_symbols does not
\* raise and returns the empty mapping.
C15_UnparsableYieldsEmpty ==
    source.kind \in Unparsable =>
        /\ epc # "raised"
        /\ epc = "returned" => DOMAIN e_symbols = {}

\* the declarations below body: the dotted path of each and the paths of
\* the declarations that enclose it
RECURSIVE DeclsIn(_, _, _)
DeclsIn(body, names, outer) ==
    UNION { LET n == body[i] IN
            IF n.type \in Declarations
            THEN {[path |-> FullName(names, n.name), outer |-> outer]}
                 \cup DeclsIn(n.body, Append(names, n.name),
                              outer \cup {FullName(names, n.name)})
            ELSE DeclsIn(n.body, names, outer)
          : i \in 1..Len(body) }

\* C16: after a successful parse every declaration is recorded under the
\* dot-joined names of its enclosing declarations and its own, every
\* recorded span has start <= end, and the span of a nested declaration lies
\* inside the span of each declaration that encloses it.
C16_PathsAndNestedSpans ==
    (epc = "returned" /\ source.kind = "python") =>
        /\ \A sym \in DOMAIN e_symbols : e_symbols[sym][1] <= e_symbols[sym][2]
        /\ \A d \in DeclsIn(source.body, <<>>, {}) :
              /\ d.path \in DOMAIN e_symbols
              /\ \A o \in d.outer :
                    /\ o \in DOMAIN e_symbols
                    /\ e_symbols[o][1] <= e_symbols[d.path][1]
                    /\ e_symbols[d.path][2] <= e_symbols[o][2]

(***************************************************************************)
(* lib/metrics.py: co_change_matrix and coupling_scores                    *)
(***************************************************************************)
\* the code point of a character of a path
CodePoint(c) ==
    CASE c = "." -> 46 [] c = "a" -> 97 [] c = "b" -> 98 [] c = "c" -> 99
      [] c \in Digits -> 48 + DigitVal(c) [] c = "T" -> 84

\* s < t on Python strings: the first differing character decides, and a
\* proper prefix comes first
RECURSIVE StrLess(_, _)
StrLess(s, t) ==
    IF Len(t) = 0 THEN FALSE
    ELSE IF Len(s) = 0 THEN TRUE
    ELSE IF s[1] = t[1] THEN StrLess(Tail(s), Tail(t))
    ELSE CodePoint(s[1]) < CodePoint(t[1])

\* sorted(S) for a set of strings
RECURSIVE SortedPaths(_)
SortedPaths(S) ==
    IF S = {} THEN <<>>
    ELSE LET least == CHOOSE x \in S : \A y \in S \ {x} : StrLess(x, y)
         IN  <<least>> \o SortedPaths(S \ {least})

\* line 57: sorted(set(commit.files))
UniqueFiles(c) == SortedPaths(Range(c.files))

\* lines 60-62: the pairs of a sorted list, in the order of the two loops
RECURSIVE PairsOf(_)
PairsOf(unique) ==
    IF Len(unique) < 2 THEN <<>>
    ELSE [j \in 1..(Len(unique) - 1) |-> <<unique[1], unique[j + 1]>>]
         \o PairsOf(Tail(unique))

\* line 62: counter[key] += 1 on a Counter kept in insertion order
Bump(counter, key) ==
    IF \E i \in 1..Len(counter) : counter[i].key = key
    THEN [i \in 1..Len(counter) |->
            IF counter[i].key = key
            THEN [key |-> key, n |-> counter[i].n + 1] ELSE counter[i]]
    ELSE Append(counter, [key |-> key, n |-> 1])

RECURSIVE BumpAll(_, _)
BumpAll(counter, keys) ==
    IF Len(keys) = 0 THEN counter
    ELSE BumpAll(Bump(counter, Head(keys)), Tail(keys))

\* a change set enters the matrix whatever its size
EntersMatrixUncapped(unique, cap) == Len(unique) >= 2

\* line 58: the change sets that enter the matrix
EntersMatrix(unique, cap) == Len(unique) >= 2 /\ Len(unique) <= cap

\* a change set of exactly cap files is not counted for its files
IsCountedBelowCap(files, cap) == Cardinality(files) < cap

\* line 75: the change sets counted for their files
IsCounted(files, cap) == Cardinality(files) <= cap

\* lines 77-78: one more commit for every file of the set
CountFiles(counter, files) ==
    [p \in DOMAIN counter \cup files |->
        Count(counter, p) + (IF p \in files THEN 1 ELSE 0)]

\* line 97: round(shared / base, 4), in units of 1/10000; a tie goes to the
\* even neighbour
RoundUnit == 10000

Rounded(shared, base) ==
    LET q == (shared * RoundUnit) \div base
        r == (shared * RoundUnit) % base
    IN  IF 2 * r > base THEN q + 1
        ELSE IF 2 * r = base THEN q + (q % 2)
        ELSE q

\* lines 88-98: the row of one entry of the matrix
CouplingRow(entry, target, counter) ==
    LET base == IF Count(counter, target) = 0 THEN 1 ELSE Count(counter, target)
    IN  [file |-> target,
         other_file |-> IF entry.key[1] = target THEN entry.key[2]
                        ELSE entry.key[1],
         shared_commits |-> entry.n,
         target_commit_touches |-> base,
         coupling |-> Rounded(entry.n, base)]

\* lines 83-87: the entries that yield a row
YieldsRow(entry, target, min_shared) ==
    /\ ~(entry.n < min_shared)
    /\ target \in {entry.key[1], entry.key[2]}

\* lines 83-99: the rows in the order of the entries of the matrix
RECURSIVE RowsOf(_, _, _, _)
RowsOf(matrix, target, min_shared, counter) ==
    IF Len(matrix) = 0 THEN <<>>
    ELSE (IF YieldsRow(Head(matrix), target, min_shared)
          THEN <<CouplingRow(Head(matrix), target, counter)>> ELSE <<>>)
         \o RowsOf(Tail(matrix), target, min_shared, counter)

\* line 101: the sort key, and its order
KeyLess(r1, r2) ==
    \/ r1.shared_commits < r2.shared_commits
    \/ /\ r1.shared_commits = r2.shared_commits
       /\ r1.coupling < r2.coupling

\* one row put into a list that is sorted from the largest key down, behind
\* the rows whose key is not smaller (the sort is stable)
RECURSIVE InsertRow(_, _)
InsertRow(sorted, row) ==
    IF Len(sorted) = 0 THEN <<row>>
    ELSE IF KeyLess(Head(sorted), row) THEN <<row>> \o sorted
    ELSE <<Head(sorted)>> \o InsertRow(Tail(sorted), row)

RECURSIVE SortFrom(_, _)
SortFrom(sorted, rest) ==
    IF Len(rest) = 0 THEN sorted
    ELSE SortFrom(InsertRow(sorted, Head(rest)), Tail(rest))

\* the rows left in the order of the matrix
Unsorted(rs) == rs

\* line 101: rows.sort(key=..., reverse=True)
SortRows(rs) == SortFrom(<<>>, rs)

PathA == <<"a">>
PathAB == <<"a", "b">>
PathB == <<"b">>
Paths == {PathA, PathAB, PathB}

\* a Commit, as far as the metrics read it
MetricCommit(files, ts) == [files |-> files, ts |-> ts]

\* the file lists of commits: load_commits lists a file once, a caller may
\* list it twice; in any order
FileLists ==
    { <<PathA>>, <<PathB, PathA>>, <<PathA, PathB, PathA>>,
      <<PathAB, PathA>>, <<PathA, PathAB, PathB>>, <<PathB, PathAB>> }

CoChangeCommits == {MetricCommit(fs, 0) : fs \in FileLists}

CommitLists(pool) == UNION {[1..n -> pool] : n \in 0..MaxCommits}

InitCoup ==
    /\ cpc = "count"
    /\ c_commits \in CommitLists(CoChangeCommits)
    /\ target_file \in Paths
    /\ min_shared_revs \in {1, 2}
    /\ max_changeset_size \in {2, 3}
    /\ c_i = 0
    /\ commit_count_for_file = EmptyCounter
    /\ pairs = <<>>
    /\ c_rows = <<>>
    /\ IdleExceptCoup

\* lines 73-78: one commit of the counting loop
CoupCountCommit ==
    /\ cpc = "count"
    /\ c_i < Len(c_commits)
    /\ c_i' = c_i + 1
    /\ commit_count_for_file' =
          IF IsCounted(Range(c_commits[c_i + 1].files), max_changeset_size)
          THEN CountFiles(commit_count_for_file, Range(c_commits[c_i + 1].files))
          ELSE commit_count_for_file
    /\ UNCHANGED <<cpc, c_commits, target_file, min_shared_revs,
                   max_changeset_size, pairs, c_rows>>
    /\ UNCHANGED exceptCoup

\* lines 80 and 55: co_change_matrix is called
CoupCallMatrix ==
    /\ cpc = "count"
    /\ c_i = Len(c_commits)
    /\ cpc' = "matrix"
    /\ c_i' = 0
    /\ UNCHANGED <<c_commits, target_file, min_shared_revs,
                   max_changeset_size, commit_count_for_file, pairs, c_rows>>
    /\ UNCHANGED exceptCoup

\* lines 56-59: a change set that is too small or too large is passed over
MatrixSkipCommit ==
    /\ cpc = "matrix"
    /\ c_i < Len(c_commits)
    /\ ~EntersMatrix(UniqueFiles(c_commits[c_i + 1]), max_changeset_size)
    /\ c_i' = c_i + 1
    /\ UNCHANGED <<cpc, c_commits, target_file, min_shared_revs,
                   max_changeset_size, commit_count_for_file, pairs, c_rows>>
    /\ UNCHANGED exceptCoup

\* lines 56-62: every pair of the change set is counted
MatrixCountCommit ==
    /\ cpc = "matrix"
    /\ c_i < Len(c_commits)
    /\ EntersMatrix(UniqueFiles(c_commits[c_i + 1]), max_changeset_size)
    /\ c_i' = c_i + 1
    /\ pairs' = BumpAll(pairs, PairsOf(UniqueFiles(c_commits[c_i + 1])))
    /\ UNCHANGED <<cpc, c_commits, target_file, min_shared_revs,
                   max_changeset_size, commit_count_for_file, c_rows>>
    /\ UNCHANGED exceptCoup

\* line 63: co_change_matrix returns
MatrixReturn ==
    /\ cpc = "matrix"
    /\ c_i = Len(c_commits)
    /\ cpc' = "rows"
    /\ UNCHANGED <<c_commits, target_file, min_shared_revs,
                   max_changeset_size, c_i, commit_count_for_file, pairs,
                   c_rows>>
    /\ UNCHANGED exceptCoup

\* lines 81-102: the rows are built, sorted and returned
CoupReturn ==
    /\ cpc = "rows"
    /\ c_rows' = SortRows(RowsOf(pairs, target_file, min_shared_revs,
                                 commit_count_for_file))
    /\ cpc' = "returned"
    /\ UNCHANGED <<c_commits, target_file, min_shared_revs,
                   max_changeset_size, c_i, commit_count_for_file, pairs>>
    /\ UNCHANGED exceptCoup

NextCoup ==
    \/ CoupCountCommit
    \/ CoupCallMatrix
    \/ MatrixSkipCommit
    \/ MatrixCountCommit
    \/ MatrixReturn
    \/ CoupReturn

SpecCoup == InitCoup /\ [][NextCoup]_vars

\* the commits whose set of files holds p and q and has 2 to cap members
CoChanging(p, q) ==
    {i \in 1..Len(c_commits) :
        LET fs == Range(c_commits[i].files)
        IN  /\ p \in fs /\ q \in fs
            /\ Cardinality(fs) >= 2
            /\ Cardinality(fs) <= max_changeset_size}

\* the count the matrix holds under the key (l, r); 0 without such a key
Shared(l, r) ==
    SumOver([i \in 1..Len(pairs) |-> pairs[i].n],
            {i \in 1..Len(pairs) : pairs[i].key = <<l, r>>})

\* C17: the matrix holds, for every two distinct files, the number of commits
\* whose set of unique files contains both and has between 2 and
\* max_changeset_size members, under the single key that puts the smaller
\* path first; other commits count for no pair and a file listed twice in a
\* commit counts once.
C17_MatrixCountsCoChanges ==
    cpc \in {"rows", "returned"} =>
        /\ \A i, j \in 1..Len(pairs) : pairs[i].key = pairs[j].key => i = j
        /\ \A i \in 1..Len(pairs) :
              /\ pairs[i].key[1] \in Paths /\ pairs[i].key[2] \in Paths
              /\ StrLess(pairs[i].key[1], pairs[i].key[2])
              /\ pairs[i].n >= 1
        /\ \A p, q \in Paths :
              StrLess(p, q) => Shared(p, q) = Cardinality(CoChanging(p, q))

\* C17 witness: a commit listing a, b, a and a commit of three files with
\* the cap at two leave the matrix with (a, b) counted once and nothing else.
C17_Witness ==
    /\ cpc = "returned"
    /\ Len(c_commits) = 2
    /\ c_commits[1].files = <<PathA, PathB, PathA>>
    /\ c_commits[2].files = <<PathA, PathAB, PathB>>
    /\ max_changeset_size = 2
    /\ pairs = <<[key |-> <<PathA, PathB>>, n |-> 1]>>

Neighbours ==
    {q \in Paths \ {target_file} :
        LET n == Shared(target_file, q) + Shared(q, target_file)
        IN  n >= 1 /\ n >= min_shared_revs}

\* the commits that touch the target, and those of them counted for it
TouchingTarget ==
    {i \in 1..Len(c_commits) : target_file \in Range(c_commits[i].files)}
TouchingTargetWithinCap ==
    {i \in TouchingTarget :
        Cardinality(Range(c_commits[i].files)) <= max_changeset_size}

\* one row per neighbour of the target and no other row, coupling computed
\* over base (rounded as the code rounds), largest (shared, coupling) first
RowsAsClaimed(base) ==
    /\ Len(c_rows) = Cardinality(Neighbours)
    /\ {c_rows[i].other_file : i \in 1..Len(c_rows)} = Neighbours
    /\ \A i \in 1..Len(c_rows) :
          /\ c_rows[i].file = target_file
          /\ c_rows[i].shared_commits =
                Shared(target_file, c_rows[i].other_file)
                + Shared(c_rows[i].other_file, target_file)
          /\ base > 0
          /\ c_rows[i].coupling = Rounded(c_rows[i].shared_commits, base)
    /\ \A i, j \in 1..Len(c_rows) : i < j => ~KeyLess(c_rows[i], c_rows[j])

\* C19: one row for each file paired with the target at least
\* min_shared_revs times and no other row; each coupling is shared_commits
\* divided by the number of commits that touch the target; rows are ordered
\* non-increasing by (shared_commits, coupling).
C19_RowsOverAllTouches ==
    cpc = "returned" => RowsAsClaimed(Cardinality(TouchingTarget))

\* C19 (amended): as C19, with each coupling being shared_commits divided by
\* the number of commits that touch the target and have at most
\* max_changeset_size unique files, rounded to four decimals.
C19_RowsOverCountedTouches ==
    cpc = "returned" => RowsAsClaimed(Cardinality(TouchingTargetWithinCap))

\* C19 witness: the target a is paired once with ab and twice with b, and
\* the row of b comes first.
C19_Witness ==
    /\ cpc = "returned"
    /\ target_file = PathA
    /\ Len(c_rows) = 2
    /\ c_rows[1].other_file = PathB /\ c_rows[1].shared_commits = 2
    /\ c_rows[2].other_file = PathAB /\ c_rows[2].shared_commits = 1

(***************************************************************************)
(* lib/metrics.py: rework_ratio.  Timestamps and windows are whole days.   *)
(***************************************************************************)
\* one value put into an ascending list
RECURSIVE InsertTs(_, _)
InsertTs(sorted, t) ==
    IF Len(sorted) = 0 THEN <<t>>
    ELSE IF t < Head(sorted) THEN <<t>> \o sorted
    ELSE <<Head(sorted)>> \o InsertTs(Tail(sorted), t)

\* line 44: timestamps.sort()
RECURSIVE SortTs(_)
SortTs(ts) ==
    IF Len(ts) = 0 THEN <<>>
    ELSE InsertTs(SortTs(SubSeq(ts, 1, Len(ts) - 1)), ts[Len(ts)])

\* lines 35-37: commit_dates[file_path], one timestamp for every time a
\* commit lists the file
RECURSIVE DatesOf(_, _)
DatesOf(cs, file_path) ==
    IF Len(cs) = 0 THEN <<>>
    ELSE [i \in 1..Len(SelectSeq(Head(cs).files, LAMBDA f : f = file_path))
             |-> Head(cs).ts]
         \o DatesOf(Tail(cs), file_path)

\* two successive touches at least a window apart
HasGap(timestamps, window) ==
    \E i \in 1..(Len(timestamps) - 1) :
        timestamps[i + 1] - timestamps[i] >= window

\* line 46: two successive touches no more than a window apart
HasRetouch(timestamps, window) ==
    \E i \in 1..(Len(timestamps) - 1) :
        timestamps[i + 1] - timestamps[i] <= window

\* the ratio taken over the touches instead of the files
ReworkRatioPerTouch(cs, window_days) ==
    LET files == UNION {Range(cs[i].files) : i \in 1..Len(cs)}
        retouched ==
            {p \in files : HasRetouch(SortTs(DatesOf(cs, p)), window_days)}
    IN  IF files = {} THEN [num |-> 0, den |-> 1]
        ELSE [num |-> Cardinality(retouched),
              den |-> SumOver([p \in files |-> Len(DatesOf(cs, p))], files)]

\* lines 33-51: the ratio as numerator and denominator; 0.0 is 0 over 1
ReworkRatio(cs, window_days) ==
    LET files == UNION {Range(cs[i].files) : i \in 1..Len(cs)}
        retouched ==
            {p \in files : HasRetouch(SortTs(DatesOf(cs, p)), window_days)}
    IN  IF files = {} THEN [num |-> 0, den |-> 1]
        ELSE [num |-> Cardinality(retouched), den |-> Cardinality(files)]

\* commits as load_commits builds them: no file is listed twice (lines
\* 145-147 of the loader)
ReworkCommits ==
    {MetricCommit(fs, ts) :
        fs \in {<<PathA>>, <<PathA, PathB>>, <<PathB>>, <<PathB, PathA>>},
        ts \in {0, 1, 3}}

Windows == (0 - 1)..MaxWindow

InitRework ==
    /\ w_commits \in CommitLists(ReworkCommits)
    /\ ratios = EmptyCounter
    /\ IdleExceptRework

\* lines 33-51: one call of rework_ratio on the commits
ReworkCall ==
    /\ \E window_days \in Windows \ DOMAIN ratios :
          ratios' = (window_days :> ReworkRatio(w_commits, window_days))
                    @@ ratios
    /\ UNCHANGED w_commits
    /\ UNCHANGED exceptRework

NextRework == ReworkCall

SpecRework == InitRework /\ [][NextRework]_vars

\* C20: for the same commits, a wider window never gives a smaller
\* rework_ratio.
C20_ReworkMonotoneInWindow ==
    \A w1, w2 \in DOMAIN ratios :
        w1 <= w2 =>
            ratios[w1].num * ratios[w2].den <= ratios[w2].num * ratios[w1].den

\* C20 witness: of two files, one is touched again a day later; the ratio
\* is 0 for a window of 0 days and 1/2 for a window of 1 day.
C20_Witness ==
    /\ DOMAIN ratios = Windows
    /\ ratios[0] = [num |-> 0, den |-> 2]
    /\ ratios[1] = [num |-> 1, den |-> 2]

\* the commits of w_commits that touch file p
TouchesOf(p) == {i \in 1..Len(w_commits) : p \in Range(w_commits[i].files)}

\* file p has two touches that are neighbours in time order and no more
\* than window days apart
RetouchedWithin(p, window) ==
    \E i, j \in TouchesOf(p) :
        /\ i # j
        /\ w_commits[i].ts <= w_commits[j].ts
        /\ w_commits[j].ts - w_commits[i].ts <= window
        /\ ~\E k \in TouchesOf(p) \ {i, j} :
              /\ w_commits[i].ts < w_commits[k].ts
              /\ w_commits[k].ts < w_commits[j].ts

\* C21: rework_ratio is the number of files with two consecutive touches
\* within the window over the number of distinct files touched; it lies in
\* [0, 1], is 0.0 for no commits, and a file touched by one commit is never
\* counted as retouched.
C21_ReworkRatioValue ==
    LET files == UNION {Range(w_commits[i].files) : i \in 1..Len(w_commits)}
    IN  \A w \in DOMAIN ratios :
            /\ 0 <= ratios[w].num /\ ratios[w].num <= ratios[w].den
            /\ ratios[w].den >= 1
            /\ w_commits = <<>> => ratios[w].num = 0
            /\ files # {} =>
                  /\ ratios[w].den = Cardinality(files)
                  /\ ratios[w].num =
                        Cardinality({p \in files : RetouchedWithin(p, w)})
            /\ (\A p \in files : Cardinality(TouchesOf(p)) = 1) =>
                  ratios[w].num = 0

\* C21 witness: a is touched on days 0 and 1, b once; for a window of one
\* day the ratio is 1/2, the single touch of b not counted.
C21_Witness ==
    /\ Len(w_commits) = 2
    /\ w_commits[1] = MetricCommit(<<PathB, PathA>>, 1)
    /\ w_commits[2] = MetricCommit(<<PathA>>, 0)
    /\ 1 \in DOMAIN ratios
    /\ ratios[1] = [num |-> 1, den |-> 2]


(***************************************************************************)
(* lib/metrics.py: per_file_retouch_ratio.  Timestamps and the window are  *)
(* whole days.                                                             *)
(***************************************************************************)
\* line 139: the timestamps of the commits whose files hold file_path,
\* sorted
StampsOf(cs, file_path) ==
    LET touching == SelectSeq(cs, LAMBDA c : file_path \in Range(c.files))
    IN  SortTs([i \in 1..Len(touching) |-> touching[i].ts])

\* the retouches taken over the touches instead of the gaps
PerFileRetouchRatioPerTouch(cs, file_path, window) ==
    LET stamps == StampsOf(cs, file_path)
        retouches ==
            Cardinality({i \in 1..(Len(stamps) - 1) :
                            stamps[i + 1] - stamps[i] <= window})
    IN  IF Len(stamps) < 2 THEN [num |-> 0, den |-> 1]
        ELSE [num |-> retouches, den |-> Len(stamps)]

\* lines 138-144: the ratio as numerator and denominator; 0.0 is 0 over 1
PerFileRetouchRatio(cs, file_path, window) ==
    LET stamps == StampsOf(cs, file_path)
        retouches ==
            Cardinality({i \in 1..(Len(stamps) - 1) :
                            stamps[i + 1] - stamps[i] <= window})
    IN  IF Len(stamps) < 2 THEN [num |-> 0, den |-> 1]
        ELSE [num |-> retouches, den |-> Len(stamps) - 1]

RetouchCommits ==
    {MetricCommit(fs, ts) : fs \in {<<PathA>>, <<PathB, PathA>>},
                            ts \in {0, 1, 3}}

TouchLists(pool) == UNION {[1..n -> pool] : n \in 0..MaxTouches}

InitRetouch ==
    /\ qpc = "start"
    /\ q_commits \in TouchLists(RetouchCommits)
    /\ q_prompts = <<>>
    /\ q_file \in {PathA, PathB}
    /\ q_arg \in Windows
    /\ q_order = <<>>
    /\ q_out = <<>>
    /\ IdleExceptCall

RetouchCall ==
    /\ qpc = "start"
    /\ q_out' = PerFileRetouchRatio(q_commits, q_file, q_arg)
    /\ qpc' = "returned"
    /\ UNCHANGED <<q_commits, q_prompts, q_file, q_arg, q_order>>
    /\ UNCHANGED exceptCall

NextRetouch == RetouchCall

SpecRetouch == InitRetouch /\ [][NextRetouch]_vars

\* the commits of q_commits that touch q_file
QTouches == {i \in 1..Len(q_commits) : q_file \in Range(q_commits[i].files)}

\* the gaps between touches of q_file that are neighbours in time, one per
\* touch but the last, as the days between them
QGaps ==
    LET ts == [i \in QTouches |-> q_commits[i].ts]
        \* position of touch i in time order, ties by position in the list
        rank(i) == Cardinality({j \in QTouches :
                       ts[j] < ts[i] \/ (ts[j] = ts[i] /\ j <= i)})
    IN  [i \in {j \in QTouches : rank(j) < Cardinality(QTouches)} |->
            LET nxt == CHOOSE j \in QTouches : rank(j) = rank(i) + 1
            IN  ts[nxt] - ts[i]]

\* the call returned the zero of a file touched at most once, or else the
\* gaps chosen by `counted` over all the gaps
RetouchIs(counted) ==
    qpc = "returned" =>
        /\ 0 <= q_out.num /\ q_out.num <= q_out.den
        /\ IF Cardinality(QTouches) <= 1 THEN q_out.num = 0
           ELSE /\ q_out.den = Cardinality(QTouches) - 1
                /\ q_out.num = Cardinality({i \in DOMAIN QGaps : counted[i]})

\* C22 as stated: the ratio is 0 for a file touched at most once, and
\* otherwise the gaps under the window (shorter than it) over the touches
\* minus one.
C22_GapsUnderWindow ==
    RetouchIs([i \in DOMAIN QGaps |-> QGaps[i] < q_arg])

\* C22 amended: the ratio is 0 for a file touched at most once, and
\* otherwise the gaps no longer than the window over the touches minus one;
\* it lies in [0, 1].
C22_GapsWithinWindow ==
    RetouchIs([i \in DOMAIN QGaps |-> QGaps[i] <= q_arg])

\* C22 witness: a touched on days 0, 1 and 3 with a window of one day: the
\* gap of one day is counted, the gap of two days is not, the ratio is 1/2.
C22_Witness ==
    /\ qpc = "returned"
    /\ q_file = PathA /\ q_arg = 1
    /\ Len(q_commits) = 3
    /\ \A i \in 1..3 : q_commits[i].files = <<PathA>>
    /\ q_commits[1].ts = 3 /\ q_commits[2].ts = 0 /\ q_commits[3].ts = 1
    /\ q_out = [num |-> 1, den |-> 2]


(***************************************************************************)
(* lib/metrics.py: churn_velocity.  Timestamps are whole hours counted     *)
(* from a midnight (UTC, as parse_ts leaves them).                         *)
(***************************************************************************)
DayHours == 24

\* a commit as load_commits builds it: files are the keys of file_stats
ChurnCommit(file_stats, ts) ==
    [files |-> SortedPaths(DOMAIN file_stats), file_stats |-> file_stats,
     ts |-> ts]

\* the items left in the order they came in
NotSortedByTs(cs) == cs

\* line 113: sorted(target_commits, key=lambda c: c.ts), a stable sort
RECURSIVE InsertByTs(_, _)
InsertByTs(sorted, c) ==
    IF Len(sorted) = 0 THEN <<c>>
    ELSE IF c.ts < Head(sorted).ts THEN <<c>> \o sorted
    ELSE <<Head(sorted)>> \o InsertByTs(Tail(sorted), c)

RECURSIVE SortByTs(_)
SortByTs(cs) ==
    IF Len(cs) = 0 THEN <<>>
    ELSE InsertByTs(SortByTs(SubSeq(cs, 1, Len(cs) - 1)), cs[Len(cs)])

\* the bucket counted from the first hour of the clock
BucketFromEpoch(c, start, bucket_days) ==
    (c.ts \div DayHours) \div bucket_days

\* line 115: int((commit.ts - start).days / bucket_days), for commits not
\* before start and bucket_days of at least one
BucketOf(c, start, bucket_days) ==
    ((c.ts - start) \div DayHours) \div bucket_days

\* lines 116-128: buckets.setdefault(bucket, {...}) and the three sums
AddToBucket(buckets, bucket, c, file_path) ==
    LET row == IF bucket \in DOMAIN buckets THEN buckets[bucket]
               ELSE [bucket_index |-> bucket,
                     bucket_start |-> c.ts \div DayHours,
                     commit_touches |-> 0, insertions |-> 0,
                     deletions |-> 0]
        stat == IF file_path \in DOMAIN c.file_stats
                THEN c.file_stats[file_path] ELSE <<0, 0>>
    IN  (bucket :> [row EXCEPT !.commit_touches = @ + 1,
                               !.insertions = @ + stat[1],
                               !.deletions = @ + stat[2]]) @@ buckets

\* lines 114-128: the loop over the sorted commits
RECURSIVE FillBuckets(_, _, _, _, _)
FillBuckets(buckets, cs, start, file_path, bucket_days) ==
    IF Len(cs) = 0 THEN buckets
    ELSE FillBuckets(
            AddToBucket(buckets, BucketOf(Head(cs), start, bucket_days),
                        Head(cs), file_path),
            Tail(cs), start, file_path, bucket_days)

\* line 135: [buckets[k] for k in sorted(buckets)]
RECURSIVE InKeyOrder(_)
InKeyOrder(buckets) ==
    IF DOMAIN buckets = {} THEN <<>>
    ELSE LET k == Min(DOMAIN buckets)
         IN  <<buckets[k]>> \o
             InKeyOrder([j \in DOMAIN buckets \ {k} |-> buckets[j]])

\* lines 105-135
ChurnVelocity(cs, file_path, bucket_days) ==
    LET target_commits ==
            SortByTs(SelectSeq(cs, LAMBDA c : file_path \in DOMAIN c.file_stats))
    IN  IF Len(target_commits) = 0 THEN <<>>
        ELSE InKeyOrder(FillBuckets(EmptyCounter, target_commits,
                                    target_commits[1].ts, file_path,
                                    bucket_days))

ChurnCommits ==
    {ChurnCommit(st, ts) :
        st \in {PathA :> <<1, 0>>, (PathA :> <<2, 3>>) @@ (PathB :> <<1, 1>>)},
        ts \in {0, 23, 30, 72}}

BucketDays == {1, 2}

InitChurn ==
    /\ qpc = "start"
    /\ q_commits \in TouchLists(ChurnCommits)
    /\ q_prompts = <<>>
    /\ q_file \in {PathA, PathB}
    /\ q_arg \in BucketDays
    /\ q_order = <<>>
    /\ q_out = <<>>
    /\ IdleExceptCall

ChurnCall ==
    /\ qpc = "start"
    /\ q_out' = ChurnVelocity(q_commits, q_file, q_arg)
    /\ qpc' = "returned"
    /\ UNCHANGED <<q_commits, q_prompts, q_file, q_arg, q_order>>
    /\ UNCHANGED exceptCall

NextChurn == ChurnCall

SpecChurn == InitChurn /\ [][NextChurn]_vars

\* the bucket the claim gives commit i: the whole days since the earliest
\* touch of q_file, over bucket_days, rounded down
ClaimedBucket(i) ==
    LET first == Min({q_commits[j].ts : j \in QTouches})
        elapsed == q_commits[i].ts - first
        days == CHOOSE d \in 0..elapsed :
                    d * DayHours <= elapsed /\ elapsed < (d + 1) * DayHours
    IN  CHOOSE b \in 0..days : b * q_arg <= days /\ days < (b + 1) * q_arg

\* C23: every commit touching the file is counted in the bucket of its whole
\* days since the earliest touch over bucket_days; the buckets come in
\* strictly increasing index order from 0, none empty; the touches,
\* insertions and deletions are those of the commits of the bucket; no
\* commit touching the file gives no bucket.
C23_ChurnBuckets ==
    qpc = "returned" /\ q_arg \in BucketDays =>
        LET members(k) ==
                {i \in QTouches : ClaimedBucket(i) = q_out[k].bucket_index}
        IN  /\ (q_out = <<>>) <=> (QTouches = {})
            /\ q_out # <<>> => q_out[1].bucket_index = 0
            /\ \A k \in 1..(Len(q_out) - 1) :
                  q_out[k].bucket_index < q_out[k + 1].bucket_index
            /\ \A i \in QTouches :
                  \E k \in 1..Len(q_out) :
                      q_out[k].bucket_index = ClaimedBucket(i)
            /\ \A k \in 1..Len(q_out) :
                  /\ q_out[k].commit_touches >= 1
                  /\ q_out[k].commit_touches = Cardinality(members(k))
                  /\ q_out[k].insertions =
                        SumOver([i \in members(k) |->
                                    q_commits[i].file_stats[q_file][1]],
                                members(k))
                  /\ q_out[k].deletions =
                        SumOver([i \in members(k) |->
                                    q_commits[i].file_stats[q_file][2]],
                                members(k))
            /\ SumOver([k \in 1..Len(q_out) |-> q_out[k].commit_touches],
                       1..Len(q_out)) = Cardinality(QTouches)

\* C23 witness: a touched at hours 23, 30 and 72 with buckets of one day:
\* the touches 7 and 49 hours after the first fall in buckets 0 and 2, and
\* bucket 1 does not appear.
C23_Witness ==
    /\ qpc = "returned" /\ q_file = PathA /\ q_arg = 1
    /\ q_commits = <<ChurnCommit(PathA :> <<1, 0>>, 72),
                     ChurnCommit((PathA :> <<2, 3>>) @@ (PathB :> <<1, 1>>), 23),
                     ChurnCommit(PathA :> <<1, 0>>, 30)>>
    /\ q_out = <<[bucket_index |-> 0, bucket_start |-> 0,
                  commit_touches |-> 2, insertions |-> 3, deletions |-> 3],
                 [bucket_index |-> 2, bucket_start |-> 3,
                  commit_touches |-> 1, insertions |-> 1, deletions |-> 0]>>


(***************************************************************************)
(* lib/metrics.py: nearest_prompt_lags_hours.  Timestamps are counted in   *)
(* half hours, and so are the lags.                                        *)
(***************************************************************************)
TicksPerHour == 2
MaxLagHours == 12

Prompt(repo, ts) == [repo |-> repo, ts |-> ts]
RepoCommit(repo, ts) == [repo |-> repo, ts |-> ts]

\* the prompts of every repository taken as those of the commit's
PromptsOfAnyRepo(prompts, repo) == SortByTs(prompts)

\* lines 11-15 and 19: prompts_by_repo.get(commit.repo, []), the prompts of
\* the repository in a stable order of their timestamps
PromptsOfRepo(prompts, repo) ==
    SortByTs(SelectSeq(prompts, LAMBDA p : p.repo = repo))

\* lines 20-24: the loop that keeps the last prompt not after the commit;
\* <<>> stands for None
RECURSIVE Nearest(_, _, _)
Nearest(repo_prompts, c, nearest) ==
    IF Len(repo_prompts) = 0 THEN nearest
    ELSE IF Head(repo_prompts).ts > c.ts THEN nearest
    ELSE Nearest(Tail(repo_prompts), c, <<Head(repo_prompts)>>)

\* lines 18-29: the samples of one commit after another
RECURSIVE LagsOf(_, _)
LagsOf(cs, prompts) ==
    IF Len(cs) = 0 THEN <<>>
    ELSE LET nearest == Nearest(PromptsOfRepo(prompts, Head(cs).repo),
                                Head(cs), <<>>)
             lag == Head(cs).ts - nearest[1].ts
         IN  (IF nearest = <<>> THEN <<>>
              ELSE IF 0 <= lag /\ lag <= MaxLagHours * TicksPerHour
                   THEN <<lag>>
                   ELSE <<>>)
             \o LagsOf(Tail(cs), prompts)

\* lines 10-30
NearestPromptLagsHours(cs, prompts) == LagsOf(cs, prompts)

RepoOne == <<"r", "1">>
RepoTwo == <<"r", "2">>

\* prompts 13 hours, 12 hours, half an hour before and half an hour after a
\* commit at tick 26, and one of another repository
PromptPool ==
    {Prompt(RepoOne, ts) : ts \in {0, 2, 25, 27}} \cup {Prompt(RepoTwo, 25)}

LagCommits ==
    {RepoCommit(RepoOne, 26), RepoCommit(RepoOne, 25), RepoCommit(RepoTwo, 26)}

PromptLists == UNION {[1..n -> PromptPool] : n \in 0..MaxPrompts}

InitLags ==
    /\ qpc = "start"
    /\ q_commits \in CommitLists(LagCommits)
    /\ q_prompts \in PromptLists
    /\ q_file = <<>>
    /\ q_arg = 0
    /\ q_order = <<>>
    /\ q_out = <<>>
    /\ IdleExceptCall

LagsCall ==
    /\ qpc = "start"
    /\ q_out' = NearestPromptLagsHours(q_commits, q_prompts)
    /\ qpc' = "returned"
    /\ UNCHANGED <<q_commits, q_prompts, q_file, q_arg, q_order>>
    /\ UNCHANGED exceptCall

NextLags == LagsCall

SpecLags == InitLags /\ [][NextLags]_vars

\* the sample the claim gives commit i: the time since the latest prompt of
\* its repository that is not after it, when that is at most twelve hours
ClaimedSample(i) ==
    LET c == q_commits[i]
        before == {j \in 1..Len(q_prompts) :
                      q_prompts[j].repo = c.repo /\ q_prompts[j].ts <= c.ts}
        latest == CHOOSE j \in before :
                      \A k \in before : q_prompts[k].ts <= q_prompts[j].ts
        lag == c.ts - q_prompts[latest].ts
    IN  IF before = {} THEN <<>>
        ELSE IF 0 <= lag /\ lag <= MaxLagHours * TicksPerHour THEN <<lag>>
        ELSE <<>>

RECURSIVE ClaimedSamples(_)
ClaimedSamples(i) ==
    IF i > Len(q_commits) THEN <<>>
    ELSE ClaimedSample(i) \o ClaimedSamples(i + 1)

\* C24: the samples are, commit after commit, the time since the latest
\* prompt of the commit's repository that is not after the commit, kept
\* only when it lies within [0, 12] hours; a commit with no such prompt,
\* or with prompts of other repositories only, gives no sample.
C24_NearestSameRepoLag ==
    qpc = "returned" =>
        /\ q_out = ClaimedSamples(1)
        /\ Len(q_out) <= Len(q_commits)

\* C24 witness: a commit of r1 at tick 26 with prompts of r1 half an hour
\* after, 13 hours before and half an hour before it, in that order, gives
\* the sample of half an hour; a second commit of r2 with no prompt of r2
\* gives none.
C24_Witness ==
    /\ qpc = "returned"
    /\ q_commits = <<RepoCommit(RepoOne, 26), RepoCommit(RepoTwo, 26)>>
    /\ q_prompts = <<Prompt(RepoOne, 27), Prompt(RepoOne, 0),
                     Prompt(RepoOne, 25)>>
    /\ q_out = <<1>>


\* the added and deleted lines of the hunks numbered in S
AddedIn(S) == SumOver([j \in S |-> Len(r_hunks[j].added_lines)], S)
DeletedIn(S) == SumOver([j \in S |-> Len(r_hunks[j].deleted_lines)], S)

\* the counts of hunk i are part of the counts of row: the row's added and
\* deleted are those of a set of hunks that holds hunk i
CountedIn(i, row) ==
    \E S \in SUBSET (1..Len(r_hunks)) :
        /\ i \in S
        /\ row.added = AddedIn(S)
        /\ row.deleted = DeletedIn(S)

\* C25: a commit that is no merge and whose diff holds a hunk yields a row,
\* and the added and deleted lines of every hunk are counted in the added
\* and deleted of some row.
C25_NoChurnDropped ==
    rpc = "returned" /\ ~commit.merge_commit /\ Len(r_diff) >= 1 =>
        /\ Len(returned[1].rows) >= 1
        /\ \A i \in 1..Len(r_hunks) :
              \E k \in 1..Len(returned[1].rows) :
                  CountedIn(i, returned[1].rows[k])


\* the hunks attributed to the symbol of a row, those its touches count: all
\* of them for the row of an unresolved commit, those that change a line of
\* the symbol's span under the AST, those whose header names the symbol
\* under the header fallback
AttributedTo(symbol, flags) ==
    {i \in 1..Len(r_hunks) :
        IF "symbol_unresolved" \in Range(flags) THEN TRUE
        ELSE IF DOMAIN r_symbols # {}
             THEN /\ symbol \in DOMAIN r_symbols
                  /\ \E ln \in Changed(r_hunks[i]) :
                        r_symbols[symbol][1] <= ln /\ ln <= r_symbols[symbol][2]
             ELSE symbol \in DOMAIN SymbolsFromHunkHeaders(<<r_hunks[i]>>)}

\* C26: in every emitted row, added and deleted are the totals of the hunks
\* attributed to the row's symbol, the hunks its touches count, and churn
\* is added plus deleted.
C26_RowSumsOverAttributedHunks ==
    \A k \in 1..Len(rows) :
        LET S == AttributedTo(rows[k].symbol_id, rows[k].flags)
        IN  /\ rows[k].touches = Cardinality(S)
            /\ rows[k].added = AddedIn(S)
            /\ rows[k].deleted = DeletedIn(S)
            /\ rows[k].churn = rows[k].added + rows[k].deleted


\* C28: the rows carry the label "ast" exactly when extract_symbols
\* returned a table that is not empty; when it is empty the symbols of the
\* rows come from the hunk headers alone (or the row is the unresolved one),
\* symbol_fallback_header is reported and is on every row; when the table
\* is not empty symbol_fallback_header is neither reported nor on a row.
C28_FallbackIffTableEmpty ==
    LET fallback == DOMAIN r_source.symbols = {}
        flagged(flags) == "symbol_fallback_header" \in Range(flags)
        asClaimed(row) ==
            /\ (row.extractor = "ast") <=> ~fallback
            /\ flagged(row.flags) <=> fallback
            /\ fallback =>
                  \/ row.symbol_id \in DOMAIN SymbolsFromHunkHeaders(r_hunks)
                  \/ /\ SymbolsFromHunkHeaders(r_hunks) = EmptyCounter
                     /\ row.symbol_id = Unknown
    IN  /\ \A k \in 1..Len(rows) : asClaimed(rows[k])
        /\ rpc = "returned" /\ ~commit.merge_commit /\ r_diff # <<>> =>
              /\ flagged(returned[1].flags) <=> fallback
              /\ \A k \in 1..Len(returned[1].rows) :
                    asClaimed(returned[1].rows[k])
              /\ fallback =>
                    {returned[1].rows[k].symbol_id :
                        k \in 1..Len(returned[1].rows)}
                    = IF SymbolsFromHunkHeaders(r_hunks) = EmptyCounter
                      THEN {Unknown}
                      ELSE DOMAIN SymbolsFromHunkHeaders(r_hunks)

\* C28 witness: a file that declares nothing and hunks headed 'def g' and
\* 'function demo' yield the rows of g and demo, both with the label
\* "hunk_header" and the flag symbol_fallback_header.
C28_Witness ==
    /\ rpc = "returned"
    /\ ~r_source.raises /\ r_source.symbols = EmptyCounter
    /\ Len(r_hunks) = 2
    /\ r_hunks[1].header = <<"d", "e", "f", " ", "g">>
    /\ r_hunks[2].header = HdrFunctionDemo
    /\ Len(returned[1].rows) = 2
    /\ \A k \in 1..2 :
          /\ returned[1].rows[k].extractor = "hunk_header"
          /\ returned[1].rows[k].flags = <<"symbol_fallback_header">>
    /\ returned[1].flags = <<"symbol_fallback_header">>


\* C30: on a zero-context diff every hunk records as many added lines as its
\* body has lines that begin with '+' and as many deleted lines as its body
\* has lines that begin with '-', whatever follows the sign; a line is
\* skipped as a file marker only before the first hunk header.
C30_EveryContentLineRecorded ==
    dpc = "returned" =>
        LET heads == HeadersAt IN
        \A j \in 1..Len(parsed) :
            LET body == BodyOf(heads, j) IN
            IsZeroContextBody(body, parsed[j]) =>
                /\ Len(parsed[j].added_lines) =
                      Cardinality(LinesWith(body, "+"))
                /\ Len(parsed[j].deleted_lines) =
                      Cardinality(LinesWith(body, "-"))


(***************************************************************************)
(* analyze_symbols.py: _build_aggregate.  A row timestamp is the text      *)
(* utc_iso made of the commit time, here the day of the month and the      *)
(* hour, two digits each: "02T13".                                         *)
(***************************************************************************)
\* line 114: datetime.fromisoformat(row["ts"]), as hours since day 00
ParseTs(s) == ToInt(SubSeq(s, 1, 2)) * DayHours + ToInt(SubSeq(s, 4, 5))

\* lines 112-113: min and max on the texts
StrMin(s, t) == IF StrLess(t, s) THEN t ELSE s
StrMax(s, t) == IF StrLess(s, t) THEN t ELSE s

\* line 121: round(sum(gaps) / len(gaps), 4) of gaps in days, in units of
\* 1/10000 day; the gaps of sorted stamps add up to last minus first
AvgGapDays(stamps) ==
    Rounded(stamps[Len(stamps)] - stamps[1], DayHours * (Len(stamps) - 1))

\* lines 93-113: the rollup after one more row; None is <<>>
AfterRow(agg, row) ==
    [agg EXCEPT !.touches = @ + row.touches,
                !.added = @ + row.added,
                !.deleted = @ + row.deleted,
                !.churn = @ + row.churn,
                !.first_touch = StrMin(@, row.ts),
                !.last_touch = StrMax(@, row.ts)]

\* lines 94-106: the rollup setdefault makes for the first row of a symbol
NewAggregate(row) ==
    [symbol_id |-> row.symbol_id, symbol_display |-> row.symbol_display,
     touches |-> 0, added |-> 0, deleted |-> 0, churn |-> 0,
     first_touch |-> row.ts, last_touch |-> row.ts, avg_gap_days |-> <<>>]

\* lines 91-113: grouped after the rows rs, in the order the keys were made
RECURSIVE Grouped(_, _)
Grouped(grouped, rs) ==
    IF Len(rs) = 0 THEN grouped
    ELSE LET row == Head(rs)
             known == \E k \in 1..Len(grouped) :
                          grouped[k].symbol_id = row.symbol_id
             made == IF known THEN grouped
                     ELSE Append(grouped, NewAggregate(row))
         IN  Grouped([k \in 1..Len(made) |->
                         IF made[k].symbol_id = row.symbol_id
                         THEN AfterRow(made[k], row) ELSE made[k]],
                     Tail(rs))

\* lines 114-121: the parsed stamps of a symbol, sorted, and the mean gap
WithGaps(grouped, rs) ==
    [k \in 1..Len(grouped) |->
        LET mine == SelectSeq(rs, LAMBDA r : r.symbol_id = grouped[k].symbol_id)
            stamps == SortTs([i \in 1..Len(mine) |-> ParseTs(mine[i].ts)])
        IN  IF Len(stamps) < 2 THEN grouped[k]
            ELSE [grouped[k] EXCEPT !.avg_gap_days = <<AvgGapDays(stamps)>>]]

\* the key (touches, churn) of a is below that of b
AggLess(a, b) ==
    a.touches < b.touches \/ (a.touches = b.touches /\ a.churn < b.churn)

RECURSIVE InsertAgg(_, _)
InsertAgg(sorted, a) ==
    IF Len(sorted) = 0 THEN <<a>>
    ELSE IF AggLess(Head(sorted), a) THEN <<a>> \o sorted
    ELSE <<Head(sorted)>> \o InsertAgg(Tail(sorted), a)

\* the rollups left in the order of grouped
InGroupedOrder(aggs) == aggs

\* line 123: sorted(..., key=(touches, churn), reverse=True), a stable sort
RECURSIVE ByTouchesAndChurn(_)
ByTouchesAndChurn(aggs) ==
    IF Len(aggs) = 0 THEN <<>>
    ELSE InsertAgg(ByTouchesAndChurn(SubSeq(aggs, 1, Len(aggs) - 1)),
                   aggs[Len(aggs)])

\* lines 88-123
BuildAggregate(rs) == ByTouchesAndChurn(WithGaps(Grouped(<<>>, rs), rs))

\* a row as _symbol_rows_for_commit makes it, with the fields the rollup
\* reads
TouchRow(symbol, ts, n, added, deleted) ==
    [symbol_id |-> symbol, symbol_display |-> symbol, ts |-> ts,
     touches |-> n, added |-> added, deleted |-> deleted,
     churn |-> added + deleted]

TsTexts ==
    { <<"0", "1", "T", "0", "0">>, <<"0", "2", "T", "1", "3">>,
      <<"1", "0", "T", "0", "0">> }

TouchRows ==
    {TouchRow(sym, ts, st[1], st[2], st[3]) :
        sym \in {<<"f">>, <<"g">>}, ts \in TsTexts,
        st \in {<<1, 1, 0>>, <<2, 0, 3>>}}

InitAgg ==
    /\ apc = "start"
    /\ all_rows \in UNION {[1..n -> TouchRows] : n \in 0..MaxRows}
    /\ aggregates = <<>>
    /\ IdleExceptAgg

AggCall ==
    /\ apc = "start"
    /\ aggregates' = BuildAggregate(all_rows)
    /\ apc' = "returned"
    /\ UNCHANGED all_rows
    /\ UNCHANGED exceptAgg

NextAgg == AggCall

SpecAgg == InitAgg /\ [][NextAgg]_vars

\* the rows of all_rows with symbol sym
RowsOfSymbol(sym) == {i \in 1..Len(all_rows) : all_rows[i].symbol_id = sym}

\* C27: there is one rollup for every symbol of the rows and no other; its
\* touches, added, deleted and churn are the sums over the symbol's rows;
\* first_touch and last_touch are the earliest and latest timestamps of
\* those rows; avg_gap_days is None exactly when the symbol has fewer than
\* two rows and else the mean gap in days between successive touches (to
\* four decimals); the rollups come in non-increasing order of (touches,
\* churn).
C27_OneRollupPerSymbol ==
    apc = "returned" =>
        /\ {aggregates[k].symbol_id : k \in 1..Len(aggregates)}
              = {all_rows[i].symbol_id : i \in 1..Len(all_rows)}
        /\ \A j, k \in 1..Len(aggregates) :
              aggregates[j].symbol_id = aggregates[k].symbol_id => j = k
        /\ \A k \in 1..(Len(aggregates) - 1) :
              ~AggLess(aggregates[k], aggregates[k + 1])
        /\ \A k \in 1..Len(aggregates) :
              LET agg == aggregates[k]
                  mine == RowsOfSymbol(agg.symbol_id)
                  times == {ParseTs(all_rows[i].ts) : i \in mine}
                  earliest == Min(times)
                  latest == CHOOSE t \in times : \A u \in times : u <= t
                  gaps == Cardinality(mine) - 1
              IN  /\ agg.touches = SumOver([i \in mine |-> all_rows[i].touches], mine)
                  /\ agg.added = SumOver([i \in mine |-> all_rows[i].added], mine)
                  /\ agg.deleted = SumOver([i \in mine |-> all_rows[i].deleted], mine)
                  /\ agg.churn = SumOver([i \in mine |-> all_rows[i].churn], mine)
                  /\ \E i \in mine : agg.first_touch = all_rows[i].ts
                  /\ \E i \in mine : agg.last_touch = all_rows[i].ts
                  /\ ParseTs(agg.first_touch) = earliest
                  /\ ParseTs(agg.last_touch) = latest
                  /\ ParseTs(agg.first_touch) <= ParseTs(agg.last_touch)
                  /\ (agg.avg_gap_days = <<>>) <=> (Cardinality(mine) < 2)
                  /\ Cardinality(mine) >= 2 =>
                        \* within half a unit of the mean of the gaps, which
                        \* add up to latest - earliest hours
                        LET mean == agg.avg_gap_days[1] * DayHours * gaps
                            exact == (latest - earliest) * RoundUnit
                        IN  /\ 2 * (mean - exact) <= DayHours * gaps
                            /\ 2 * (exact - mean) <= DayHours * gaps

\* C27 witness: rows of f on day 2 at 13 h, of g, and of f on day 1 at 0 h:
\* f has first_touch "01T00", last_touch "02T13" and the mean gap of 37
\* hours, 1.5417 days; g, with one row, has no mean gap and comes last.
C27_Witness ==
    /\ apc = "returned"
    /\ Len(all_rows) = 3
    /\ all_rows[1].symbol_id = <<"f">>
    /\ all_rows[1].ts = <<"0", "2", "T", "1", "3">>
    /\ all_rows[2].symbol_id = <<"g">>
    /\ all_rows[3].ts = <<"0", "1", "T", "0", "0">>
    /\ Len(aggregates) = 2
    /\ aggregates[1].symbol_id = <<"f">>
    /\ aggregates[1].first_touch = <<"0", "1", "T", "0", "0">>
    /\ aggregates[1].last_touch = <<"0", "2", "T", "1", "3">>
    /\ aggregates[1].avg_gap_days = <<15417>>
    /\ aggregates[2].symbol_id = <<"g">>
    /\ aggregates[2].avg_gap_days = <<>>


(***************************************************************************)
(* lib/metrics.py: the metrics called twice, on a list and on the same     *)
(* items in another order.  Timestamps of the commits are whole hours for  *)
(* the file metrics and half hours for the lags, as above.                 *)
(***************************************************************************)
\* lines 55-63: co_change_matrix as a whole
RECURSIVE MatrixFrom(_, _, _)
MatrixFrom(counter, cs, cap) ==
    IF Len(cs) = 0 THEN counter
    ELSE MatrixFrom(IF EntersMatrix(UniqueFiles(Head(cs)), cap)
                    THEN BumpAll(counter, PairsOf(UniqueFiles(Head(cs))))
                    ELSE counter,
                    Tail(cs), cap)

CoChangeMatrix(cs, cap) == MatrixFrom(<<>>, cs, cap)

\* lines 73-78: commit_count_for_file as a whole
RECURSIVE FileCountsFrom(_, _, _)
FileCountsFrom(counter, cs, cap) ==
    IF Len(cs) = 0 THEN counter
    ELSE FileCountsFrom(IF IsCounted(Range(Head(cs).files), cap)
                        THEN CountFiles(counter, Range(Head(cs).files))
                        ELSE counter,
                        Tail(cs), cap)

\* lines 66-102: coupling_scores as a whole
CouplingScores(cs, target, min_shared, cap) ==
    SortRows(RowsOf(CoChangeMatrix(cs, cap), target, min_shared,
                    FileCountsFrom(EmptyCounter, cs, cap)))

\* the items of list in the order `order` names them
Reordered(list, order) == [i \in 1..Len(list) |-> list[order[i]]]

Orders(list) == Permutations(1..Len(list))

PermCommits ==
    {ChurnCommit(st, ts) :
        st \in {PathA :> <<1, 0>>, (PathA :> <<2, 3>>) @@ (PathB :> <<1, 1>>)},
        ts \in {0, 30}}

PermPrompts ==
    {Prompt(RepoOne, 2), Prompt(RepoOne, 25), Prompt(RepoTwo, 25)}

\* a run on the file metrics (q_file names a file) or on the lags
InitPerm ==
    /\ qpc = "start"
    /\ \/ /\ q_commits \in TouchLists(PermCommits)
          /\ q_prompts = <<>>
          /\ q_file \in {PathA, PathB}
          /\ q_arg \in {1, 2}
       \/ /\ q_commits \in CommitLists(LagCommits)
          /\ q_prompts \in UNION {[1..n -> PermPrompts] : n \in 0..MaxPrompts}
          /\ q_file = <<>>
          /\ q_arg = 0
    /\ q_order = <<>>
    /\ q_out = <<>>
    /\ IdleExceptCall

\* two callers hold the same items in two orders; the lists stay theirs
TwoCalls(metric, order, first, second) ==
    /\ qpc = "start"
    /\ q_order' = order
    /\ q_out' = [metric |-> metric, first |-> first, second |-> second]
    /\ qpc' = "returned"
    /\ UNCHANGED <<q_commits, q_prompts, q_file, q_arg>>
    /\ UNCHANGED exceptCall

\* co_change_matrix with max_changeset_size = q_arg; a Counter is equal to
\* another whatever the order of its keys
PermCoChange ==
    /\ q_file # <<>>
    /\ \E order \in Orders(q_commits) :
          TwoCalls("co_change_matrix", order,
                   Range(CoChangeMatrix(q_commits, q_arg)),
                   Range(CoChangeMatrix(Reordered(q_commits, order), q_arg)))

\* coupling_scores with min_shared_revs = 1 and max_changeset_size = q_arg
PermCoupling ==
    /\ q_file # <<>>
    /\ \E order \in Orders(q_commits) :
          TwoCalls("coupling_scores", order,
                   CouplingScores(q_commits, q_file, 1, q_arg),
                   CouplingScores(Reordered(q_commits, order), q_file, 1,
                                  q_arg))

\* rework_ratio with window_days = q_arg
PermRework ==
    /\ q_file # <<>>
    /\ \E order \in Orders(q_commits) :
          TwoCalls("rework_ratio", order,
                   ReworkRatio(q_commits, q_arg * DayHours),
                   ReworkRatio(Reordered(q_commits, order), q_arg * DayHours))

\* per_file_retouch_ratio with window_days = q_arg
PermRetouch ==
    /\ q_file # <<>>
    /\ \E order \in Orders(q_commits) :
          TwoCalls("per_file_retouch_ratio", order,
                   PerFileRetouchRatio(q_commits, q_file, q_arg * DayHours),
                   PerFileRetouchRatio(Reordered(q_commits, order), q_file,
                                       q_arg * DayHours))

\* churn_velocity with bucket_days = q_arg
PermChurn ==
    /\ q_file # <<>>
    /\ \E order \in Orders(q_commits) :
          TwoCalls("churn_velocity", order,
                   ChurnVelocity(q_commits, q_file, q_arg),
                   ChurnVelocity(Reordered(q_commits, order), q_file, q_arg))

\* nearest_prompt_lags_hours with the prompts in another order
PermLags ==
    /\ q_file = <<>>
    /\ \E order \in Orders(q_prompts) :
          TwoCalls("nearest_prompt_lags_hours", order,
                   NearestPromptLagsHours(q_commits, q_prompts),
                   NearestPromptLagsHours(q_commits,
                                          Reordered(q_prompts, order)))

NextPerm ==
    \/ PermCoChange
    \/ PermCoupling
    \/ PermRework
    \/ PermRetouch
    \/ PermChurn
    \/ PermLags

SpecPerm == InitPerm /\ [][NextPerm]_vars

====
